---- MODULE Spec2Model ----
(***************************************************************************)
(* Godseye agent-trust and ingestion core: the enroll, rotate and ingest   *)
(* edge functions and the tables they read and write.  Every await on the  *)
(* store is one atomic step; the computation between two awaits belongs to *)
(* the step of the await that follows it.  Time is counted in minutes.     *)
(***************************************************************************)
EXTENDS Integers, Sequences, FiniteSets, Bags, TLC

\* ------------------------------------------------------------ bounds ----
MaxTicks == 1        \* clock advances per behaviour
MaxIngest == 3       \* ingest requests per behaviour
MaxRnd == 3          \* values drawn from the random generator per behaviour
MaxAlerts == 3       \* rows of table alerts per behaviour
MaxWait == 5         \* minutes the scheduler is followed

\* ------------------------------------------------- program constants ----
JWT_ISSUER == "godseye"
JWT_AUDIENCE == "agent"
JWT_SECRET == "JWT_SECRET"
JWT_TTL_MINUTES == 60
SKEW_MINUTES == 5
MIN_SECRET_LEN == 32
MAX_PROCESSES == 50
MAX_LOGS == 200
INT4_MAX_HI == 32767          \* 2147483647 \div 65536, the largest int of the store
INT8_MAX_HI == 32767          \* (2^63 - 1) \div 2^48, the largest bigint of the store

\* --------------------------------------------------------- universes ----
Procs == {"p1", "p2"}            \* concurrently running function instances
NaN == -1000000                  \* Date.getTime() of an unparseable string
NoTimestamp == -2000000          \* X-Timestamp header not sent
NoNonce == ""                    \* X-Nonce header not sent

Abs(x) == IF x < 0 THEN -x ELSE x

VARIABLES
    clock,        \* server time, minutes
    ticks,        \* number of clock advances so far
    rnd,          \* number of random values generated so far
    ningest,      \* number of ingest requests received so far
    servers,      \* table servers: sequence of rows, row id = position
    api_nonces,   \* table api_nonces: set of rows; stamp records the X-Timestamp
                  \* of the request that stored the row
    heartbeats,   \* table heartbeats: bag of rows
    subrecords,   \* tables disks, network_ifaces, processes, packages, updates, logs
    procs,        \* per function instance: handler, position, locals, response
    jwts,         \* access tokens handed out in responses
    creds,        \* agent_id / hmac_secret pairs handed out by enroll
    rtoks,        \* agent_id / refresh_token pairs handed out by enroll and rotate
    alerts,       \* table alerts: set of rows, id = order of insertion
    rollup_1m,    \* table heartbeats_rollup_1m: set of rows
    rollup_1h,    \* table heartbeats_rollup_1h: set of rows
    cronSecret    \* Deno.env.get("CRON_SECRET"), "" when not set

vars == <<clock, ticks, rnd, ningest, servers, api_nonces, heartbeats, subrecords,
          procs, jwts, creds, rtoks, alerts, rollup_1m, rollup_1h, cronSecret>>

\* the tables the scheduled jobs write and their configuration
derived == <<alerts, rollup_1m, rollup_1h, cronSecret>>

store == <<servers, api_nonces, heartbeats, subrecords>>

\* --------------------------------------------------- pure functions ----
\* SHA-256 of a secret, hex: collision-free, one-way
hashSecret(secret) == <<"sha256", secret>>

\* SHA-256 of the body text, hex
hashBody(body) == <<"sha256", body>>

\* HMAC-SHA-256 keyed with secret over message, hex
computeHMAC(secret, message) == [hmac |-> secret, over |-> message]

\* the comparison with the nonce left out of the signed message
verifyHMAC_nononce(hmacSecret, timestamp, nonce, bodyHash, providedSignature) ==
    /\ providedSignature.hmac = hmacSecret
    /\ Len(providedSignature.over) = 5
    /\ providedSignature.over[1] = timestamp
    /\ providedSignature.over[5] = bodyHash

\* timestamp + "\n" + nonce + "\n" + bodyHash, compared with ===
verifyHMAC(hmacSecret, timestamp, nonce, bodyHash, providedSignature) ==
    LET canonicalMessage == <<timestamp, "\n", nonce, "\n", bodyHash>>
        expectedSignature == computeHMAC(hmacSecret, canonicalMessage)
    IN  expectedSignature = providedSignature

\* the tolerance taken exclusive
validateTimestamp_strict(timestamp, now) ==
    timestamp # NaN /\ Abs(now - timestamp) < SKEW_MINUTES

\* |now - ts| / 60000 <= 5 ; an unparseable timestamp gives NaN, NaN <= 5 is false
validateTimestamp(timestamp, now) ==
    LET ts == timestamp
        diffMinutes == IF ts = NaN THEN NaN ELSE Abs(now - ts)
    IN  diffMinutes # NaN /\ diffMinutes <= SKEW_MINUTES

\* a token minted without an expiry
createAgentJWT_eternal(agentId, orgId, now) ==
    [sub |-> agentId, org_id |-> orgId, iss |-> JWT_ISSUER, aud |-> JWT_AUDIENCE,
     exp |-> 0, key |-> JWT_SECRET]

\* HS256 token with sub, org_id, iss, aud, exp = now + TTL
createAgentJWT(agentId, orgId, now) ==
    [sub |-> agentId, org_id |-> orgId, iss |-> JWT_ISSUER, aud |-> JWT_AUDIENCE,
     exp |-> now + JWT_TTL_MINUTES, key |-> JWT_SECRET]

\* verification that also rejects a token issued before its server row was last
\* touched
verifyAgentJWT_revoking(token, now) ==
    /\ token.key = JWT_SECRET
    /\ ~(token.exp # 0 /\ token.exp < now)
    /\ token.iss = JWT_ISSUER /\ token.aud = JWT_AUDIENCE
    /\ \A i \in 1..Len(servers) :
          servers[i].agent_id = token.sub =>
              servers[i].last_seen + JWT_TTL_MINUTES <= token.exp

\* signature, then expiry (exp && exp < now), then issuer and audience
verifyAgentJWT(token, now) ==
    /\ token.key = JWT_SECRET
    /\ ~(token.exp # 0 /\ token.exp < now)
    /\ token.iss = JWT_ISSUER /\ token.aud = JWT_AUDIENCE

\* ------------------------------------------------------------ tables ----
\* table orgs: created administratively, never written by the functions
orgs == { [id |-> "o1", enroll_secret_hash |-> hashSecret("S1")],
          [id |-> "o2", enroll_secret_hash |-> hashSecret("S2")] }

\* the lookup that falls back to the first org when no hash matches
getOrgBySecretHash_default(secretHash) ==
    LET hit == {o \in orgs : o.enroll_secret_hash = secretHash}
    IN  IF Cardinality(hit) = 1 THEN (CHOOSE o \in hit : TRUE).id ELSE "o1"

\* orgs.select().eq("enroll_secret_hash", h).single()
getOrgBySecretHash(secretHash) ==
    LET hit == {o \in orgs : o.enroll_secret_hash = secretHash}
    IN  IF Cardinality(hit) = 1 THEN (CHOOSE o \in hit : TRUE).id ELSE "none"

RowIds == 1..Len(servers)

\* servers.select().eq("agent_id", agentId).single(): row id, 0 when null
getServerByAgentId(agentId) ==
    LET hit == {i \in RowIds : servers[i].agent_id = agentId}
    IN  IF Cardinality(hit) = 1 THEN CHOOSE i \in hit : TRUE ELSE 0

\* the lookup that never finds the row
existingServer_miss(orgId, machineId) == 0

\* servers.select().eq("org_id", o).eq("machine_id", m).single(): row id, 0 when null
existingServer(orgId, machineId) ==
    LET hit == {i \in RowIds : servers[i].org_id = orgId /\ servers[i].machine_id = machineId}
    IN  IF Cardinality(hit) = 1 THEN CHOOSE i \in hit : TRUE ELSE 0

\* unique (agent_id) and unique index (org_id, machine_id) on servers
ServersInsertOk(row) ==
    \A i \in RowIds :
        /\ servers[i].agent_id # row.agent_id
        /\ ~(servers[i].org_id = row.org_id /\ servers[i].machine_id = row.machine_id)

\* the rows of servers
ServerRows == {servers[i] : i \in RowIds}

\* servers.update(...).eq("agent_id", agentId): f[row] is the updated row, taken
\* for every matching row
ServersUpdate(agentId, f) ==
    [i \in RowIds |-> IF servers[i].agent_id = agentId THEN f[servers[i]] ELSE servers[i]]

\* ------------------------------------------------------- bookkeeping ----
Idle == [op |-> "idle", pc |-> "done", req |-> [op |-> "idle"], loc |-> [x |-> 0],
         status |-> 0, msg |-> "", resp |-> [x |-> 0],
         overlap |-> FALSE, prior |-> {}, t0 |-> 0, tEnd |-> 0, wrote |-> FALSE,
         replay0 |-> FALSE]

\* a function instance is free once it has answered
Free(p) == procs[p].pc = "done"

\* start handler op on instance p with position pc
Start(p, op, req) ==
    [Idle EXCEPT !.op = op, !.req = req, !.t0 = clock,
                 !.prior = {q \in Procs \ {p} : procs[q].pc = "done" /\ procs[q].op # "idle"}]

\* instances other than p forget p's previous request once p takes a new one
Forget(p, ps) == [q \in Procs |-> IF q = p THEN ps[q] ELSE [ps[q] EXCEPT !.prior = @ \ {p}]]

Answer(rec, status, msg, resp) ==
    [rec EXCEPT !.pc = "done", !.status = status, !.msg = msg, !.resp = resp, !.tEnd = clock]

\* ----------------------------------------------------------- enroll ----
\* secret of org o1, secret of org o2, a secret of no org, a secret below 32 characters
SecretLen(s) == IF s = "short" THEN 8 ELSE 32

EnrollReq(s, m, h) ==
    [op |-> "enroll", org_enroll_secret |-> s, machine_id |-> m, hostname |-> h]

\* first enrollment and re-enrollment with changed facts, the same fingerprint in
\* another org, an unknown secret, a short secret, facts without machine_id
EnrollRequests ==
    { EnrollReq("S1", "F1", "ha"), EnrollReq("S1", "F1", "hb"),
      EnrollReq("S2", "F1", "ha"), EnrollReq("Sx", "F1", "ha"),
      EnrollReq("short", "F1", "ha"), EnrollReq("S1", "", "ha") }

\* org_enroll_secret: z.string().min(32); host_facts.machine_id: z.string().min(1)
EnrollRequestSchema(r) ==
    /\ SecretLen(r.org_enroll_secret) >= MIN_SECRET_LEN
    /\ r.machine_id # ""

SameHost(r1, r2) ==
    /\ r1.op = "enroll" /\ r2.op = "enroll"
    /\ r1.org_enroll_secret = r2.org_enroll_secret
    /\ r1.machine_id = r2.machine_id

\* parse, hash the secret, find the org, look the server up by (org, machine_id)
EnrollBegin(p, r) ==
    /\ Free(p)
    /\ LET org == getOrgBySecretHash(hashSecret(r.org_enroll_secret))
           ex == existingServer(org, r.machine_id)
           racing == {q \in Procs \ {p} : procs[q].pc # "done" /\ SameHost(procs[q].req, r)}
           me == Start(p, "enroll", r)
           mine == IF ~EnrollRequestSchema(r)
                     THEN Answer(me, 422, "Validation failed", [x |-> 0])
                   ELSE IF org = "none"
                     THEN Answer(me, 403, "Invalid enrollment secret", [x |-> 0])
                   ELSE IF ex # 0
                     THEN [me EXCEPT !.pc = "enroll_update", !.overlap = racing # {},
                                     !.loc = [org |-> org,
                                              agentId |-> servers[ex].agent_id,
                                              hmacSecret |-> servers[ex].hmac_secret,
                                              refreshToken |-> servers[ex].refresh_token]]
                   ELSE [me EXCEPT !.pc = "enroll_insert", !.overlap = racing # {},
                                   !.loc = [org |-> org]]
       IN  procs' = Forget(p, [q \in Procs |->
                        IF q = p THEN mine
                        ELSE IF q \in racing /\ mine.pc # "done"
                             THEN [procs[q] EXCEPT !.overlap = TRUE]
                        ELSE procs[q]])
    /\ UNCHANGED derived
    /\ UNCHANGED <<clock, ticks, rnd, ningest, servers, api_nonces, heartbeats, subrecords,
                   jwts, creds, rtoks>>

EnrollResponse(l, now) ==
    [agent_id |-> l.agentId, agent_jwt |-> createAgentJWT(l.agentId, l.org, now),
     refresh_token |-> l.refreshToken, hmac_secret |-> l.hmacSecret, org_id |-> l.org]

EnrollRespond(p, l) ==
    LET resp == EnrollResponse(l, clock)
    IN  /\ procs' = [procs EXCEPT ![p] = Answer(@, 200, "", resp)]
        /\ jwts' = jwts \cup {resp.agent_jwt}
        /\ creds' = creds \cup {[agent_id |-> resp.agent_id, org_id |-> resp.org_id,
                                 hmac_secret |-> resp.hmac_secret]}
        /\ rtoks' = rtoks \cup {[agent_id |-> resp.agent_id,
                                 refresh_token |-> resp.refresh_token]}

\* re-enrollment that also resets the signing secret
ReenrollFacts_rekey(row, r, now) ==
    [row EXCEPT !.hostname = r.hostname, !.last_seen = now, !.hmac_secret = 0]

\* re-enrollment: facts and last_seen of the existing row
ReenrollFacts(row, r, now) == [row EXCEPT !.hostname = r.hostname, !.last_seen = now]

\* re-enrollment: update the facts, answer with the credentials read before
EnrollUpdate(p) ==
    /\ procs[p].pc = "enroll_update"
    /\ LET l == procs[p].loc
           r == procs[p].req
           f == [row \in ServerRows |-> ReenrollFacts(row, r, clock)]
       IN  /\ servers' = ServersUpdate(l.agentId, f)
           /\ EnrollRespond(p, l)
    /\ UNCHANGED derived
    /\ UNCHANGED <<clock, ticks, rnd, ningest, api_nonces, heartbeats, subrecords>>

\* crypto.randomUUID(), generateSecret(32), generateSecret(64)
NewCredentials(org, n) ==
    [org |-> org, agentId |-> n, hmacSecret |-> n, refreshToken |-> n]

\* new enrollment: insert the row (the result of the insert is not looked at)
EnrollInsert(p) ==
    /\ procs[p].pc = "enroll_insert"
    /\ rnd < MaxRnd
    /\ LET r == procs[p].req
           l == NewCredentials(procs[p].loc.org, rnd + 1)
           row == [org_id |-> l.org, agent_id |-> l.agentId, hostname |-> r.hostname,
                   machine_id |-> r.machine_id, hmac_secret |-> l.hmacSecret,
                   refresh_token |-> l.refreshToken, first_seen |-> clock,
                   last_seen |-> clock]
       IN  /\ servers' = IF ServersInsertOk(row) THEN Append(servers, row) ELSE servers
           /\ EnrollRespond(p, l)
    /\ rnd' = rnd + 1
    /\ UNCHANGED derived
    /\ UNCHANGED <<clock, ticks, ningest, api_nonces, heartbeats, subrecords>>

\* ----------------------------------------------------------- rotate ----
WrongToken == 999
NotUuid == -1                    \* an agent_id that is not a UUID

\* what a caller can present: pairs it was handed, a stale guess, an unknown host,
\* an agent_id that is not a UUID
RotateRequests ==
    { [op |-> "rotate", agent_id |-> k.agent_id, refresh_token |-> k.refresh_token] :
        k \in rtoks }
    \cup { [op |-> "rotate", agent_id |-> k.agent_id, refresh_token |-> WrongToken] :
        k \in rtoks }
    \cup { [op |-> "rotate", agent_id |-> NotUuid, refresh_token |-> WrongToken] }

\* agent_id: z.string().uuid(); refresh_token: z.string()
RotateRequestSchema(r) == r.agent_id # NotUuid

\* the lookup without the comparison of the refresh token
RotateBegin_anytoken(p, r) ==
    /\ Free(p)
    /\ LET i == getServerByAgentId(r.agent_id)
           me == Start(p, "rotate", r)
           mine == IF ~RotateRequestSchema(r)
                     THEN Answer(me, 422, "Validation failed", [x |-> 0])
                   ELSE IF i = 0 THEN Answer(me, 403, "Invalid agent ID", [x |-> 0])
                   ELSE [me EXCEPT !.pc = "rotate_update",
                                   !.loc = [org |-> servers[i].org_id]]
       IN  procs' = Forget(p, [procs EXCEPT ![p] = mine])
    /\ UNCHANGED derived
    /\ UNCHANGED <<clock, ticks, rnd, ningest, servers, api_nonces, heartbeats, subrecords,
                   jwts, creds, rtoks>>

\* parse, look the server up by agent_id and compare the refresh token
RotateBegin(p, r) ==
    /\ Free(p)
    /\ LET i == getServerByAgentId(r.agent_id)
           me == Start(p, "rotate", r)
           mine == IF ~RotateRequestSchema(r)
                     THEN Answer(me, 422, "Validation failed", [x |-> 0])
                   ELSE IF i = 0 THEN Answer(me, 403, "Invalid agent ID", [x |-> 0])
                   ELSE IF servers[i].refresh_token # r.refresh_token
                     THEN Answer(me, 403, "Invalid refresh token", [x |-> 0])
                   ELSE [me EXCEPT !.pc = "rotate_update",
                                   !.loc = [org |-> servers[i].org_id]]
       IN  procs' = Forget(p, [procs EXCEPT ![p] = mine])
    /\ UNCHANGED derived
    /\ UNCHANGED <<clock, ticks, rnd, ningest, servers, api_nonces, heartbeats, subrecords,
                   jwts, creds, rtoks>>

\* a rotate that leaves the stored refresh token in place
RotateFields_keep(row, newRefreshToken, now) == [row EXCEPT !.last_seen = now]

\* rotate: the new refresh token and last_seen
RotateFields(row, newRefreshToken, now) ==
    [row EXCEPT !.refresh_token = newRefreshToken, !.last_seen = now]

\* mint the token, generate the refresh token, update the row, answer
RotateUpdate(p) ==
    /\ procs[p].pc = "rotate_update"
    /\ rnd < MaxRnd
    /\ LET r == procs[p].req
           newJwt == createAgentJWT(r.agent_id, procs[p].loc.org, clock)
           newRefreshToken == rnd + 1
           f == [row \in ServerRows |-> RotateFields(row, newRefreshToken, clock)]
           resp == [agent_jwt |-> newJwt, refresh_token |-> newRefreshToken]
       IN  /\ servers' = ServersUpdate(r.agent_id, f)
           /\ procs' = [procs EXCEPT ![p] = Answer(@, 200, "", resp)]
           /\ jwts' = jwts \cup {newJwt}
           /\ rtoks' = rtoks \cup {[agent_id |-> r.agent_id,
                                    refresh_token |-> newRefreshToken]}
    /\ rnd' = rnd + 1
    /\ UNCHANGED derived
    /\ UNCHANGED <<clock, ticks, ningest, api_nonces, heartbeats, subrecords, creds>>

\* ----------------------------------------------------------- ingest ----
NoToken == [sub |-> 0, org_id |-> "", iss |-> "", aud |-> "", exp |-> 0, key |-> ""]
NoSignature == [hmac |-> 0, over |-> <<>>]

\* a payload that passes every validator: one disk, no process, no log, no
\* server.agent_id (optional), the machine_id of the enrolled hosts
Payload ==
    [json |-> TRUE, fields |-> TRUE, hostname |-> "ha", agent_id |-> 0,
     machine_id |-> "F1", hb_ts |-> 0, hb_half |-> 0, cpu_pct |-> 10, disks |-> 1,
     processes |-> 0, pid_hi |-> 0, logs |-> 0, log_ts |-> 0,
     cores_hi |-> 0, uptime_hi |-> 0]

\* request bodies by name: JSON text or not, verdict of the field validators,
\* parsed content (list lengths, the largest pid \div 65536, timestamps of the entries;
\* heartbeat.ts as minute hb_ts and half minute hb_half within it; server.cpu.cores
\* \div 65536 and heartbeat.uptime_s \div 2^48, integers the validators accept)
Body(b) ==
    CASE b = "B1"    -> Payload
      [] b = "B2"    -> [Payload EXCEPT !.hostname = "hb", !.hb_ts = 1, !.disks = 0]
      [] b = "B1x"   -> [Payload EXCEPT !.agent_id = 3, !.machine_id = "F9"]
      [] b = "Bbad"  -> [Payload EXCEPT !.fields = FALSE, !.disks = 0]
      [] b = "Bcap"  -> [Payload EXCEPT !.processes = MAX_PROCESSES, !.pid_hi = 0,
                                        !.logs = MAX_LOGS, !.log_ts = 2]
      [] b = "Bproc" -> [Payload EXCEPT !.processes = MAX_PROCESSES + 1, !.pid_hi = 0]
      [] b = "Blogs" -> [Payload EXCEPT !.logs = MAX_LOGS + 1, !.log_ts = 2]
      [] b = "Bpid"  -> [Payload EXCEPT !.processes = 1, !.pid_hi = INT4_MAX_HI + 1]
      [] b = "Bcores" -> [Payload EXCEPT !.hostname = "hb", !.hb_ts = 1, !.disks = 0,
                                         !.cores_hi = INT4_MAX_HI + 1]
      [] b = "Bup"   -> [Payload EXCEPT !.hostname = "hb", !.hb_ts = 1, !.disks = 0,
                                        !.uptime_hi = INT8_MAX_HI + 1]
      [] b = "H55a"  -> [Payload EXCEPT !.hb_ts = 55, !.hb_half = 0, !.cpu_pct = 10,
                                        !.disks = 0]
      [] b = "H55b"  -> [Payload EXCEPT !.hb_ts = 55, !.hb_half = 1, !.cpu_pct = 30,
                                        !.disks = 0]
      [] b = "H56"   -> [Payload EXCEPT !.hb_ts = 56, !.hb_half = 0, !.cpu_pct = 20,
                                        !.disks = 0]
      [] OTHER       -> [Payload EXCEPT !.json = FALSE, !.fields = FALSE, !.disks = 0]

\* the schema without the caps on the lists
IngestPayloadSchema_nocap(data) == data.fields

\* a schema that accepts every JSON value
IngestPayloadSchema_lenient(data) == TRUE

\* the field validators, processes: max(50), logs: max(200)
IngestPayloadSchema(data) ==
    /\ data.fields
    /\ data.processes <= MAX_PROCESSES
    /\ data.logs <= MAX_LOGS

IngestReq(token, timestamp, nonce, signature, body) ==
    [op |-> "ingest", auth |-> token, timestamp |-> timestamp, nonce |-> nonce,
     signature |-> signature, body |-> body]

\* the signature an agent holding secret computes for (timestamp, nonce, body)
Sign(secret, timestamp, nonce, body) ==
    computeHMAC(secret, <<timestamp, "\n", nonce, "\n", hashBody(body)>>)

\* the replay read that never finds a row
isNonceUsed_blind(orgId, agentId, nonce) == FALSE

\* the replay read without the filters on org_id and agent_id
isNonceUsed_anyhost(orgId, agentId, nonce) == \E n \in api_nonces : n.nonce = nonce

\* api_nonces.select().eq(org_id).eq(agent_id).eq(nonce).single(): data !== null
isNonceUsed(orgId, agentId, nonce) ==
    LET hit == {n \in api_nonces : n.org_id = orgId /\ n.agent_id = agentId /\ n.nonce = nonce}
    IN  Cardinality(hit) = 1

\* api_nonces without its unique index
NonceInsertOk_noindex(orgId, agentId, nonce) == TRUE

\* unique index (org_id, agent_id, nonce) on api_nonces
NonceInsertOk(orgId, agentId, nonce) ==
    \A n \in api_nonces : ~(n.org_id = orgId /\ n.agent_id = agentId /\ n.nonce = nonce)

\* a row for the request's (org, agent, nonce) is in api_nonces
NonceStored(r) ==
    \E n \in api_nonces :
        n.org_id = r.auth.org_id /\ n.agent_id = r.auth.sub /\ n.nonce = r.nonce

\* the same checks with the timestamp looked at before the headers
IngestAuth_tsfirst(r, now) ==
    IF ~validateTimestamp(r.timestamp, now)
      THEN [status |-> 401, msg |-> "Invalid or expired timestamp"]
    ELSE IF r.auth = NoToken \/ r.timestamp = NoTimestamp \/ r.nonce = NoNonce
       \/ r.signature = NoSignature
      THEN [status |-> 400, msg |-> "Missing required headers"]
    ELSE IF ~verifyAgentJWT(r.auth, now)
      THEN [status |-> 401, msg |-> "JWT verification failed"]
    ELSE IF getServerByAgentId(r.auth.sub) = 0
      THEN [status |-> 403, msg |-> "Server not found"]
    ELSE IF servers[getServerByAgentId(r.auth.sub)].org_id # r.auth.org_id
      THEN [status |-> 403, msg |-> "Organization mismatch"]
    ELSE [status |-> 0, msg |-> ""]

\* the checks up to the server lookup, in the order of the handler; status 0 = passed
IngestAuth(r, now) ==
    IF r.auth = NoToken \/ r.timestamp = NoTimestamp \/ r.nonce = NoNonce
       \/ r.signature = NoSignature
      THEN [status |-> 400, msg |-> "Missing required headers"]
    ELSE IF ~validateTimestamp(r.timestamp, now)
      THEN [status |-> 401, msg |-> "Invalid or expired timestamp"]
    ELSE IF ~verifyAgentJWT(r.auth, now)
      THEN [status |-> 401, msg |-> "JWT verification failed"]
    ELSE IF getServerByAgentId(r.auth.sub) = 0
      THEN [status |-> 403, msg |-> "Server not found"]
    ELSE IF servers[getServerByAgentId(r.auth.sub)].org_id # r.auth.org_id
      THEN [status |-> 403, msg |-> "Organization mismatch"]
    ELSE [status |-> 0, msg |-> ""]

\* headers, timestamp, token, server lookup, organization
IngestBegin(p, r) ==
    /\ Free(p)
    /\ ningest < MaxIngest
    /\ ningest' = ningest + 1
    /\ LET a == IngestAuth(r, clock)
           i == getServerByAgentId(r.auth.sub)
           me == [Start(p, "ingest", r) EXCEPT
                    !.replay0 = NonceStored(r)]
           mine == IF a.status # 0 THEN Answer(me, a.status, a.msg, [x |-> 0])
                   ELSE [me EXCEPT !.pc = "ingest_nonce",
                                   !.loc = [agentId |-> r.auth.sub, orgId |-> r.auth.org_id,
                                            id |-> i, hmac_secret |-> servers[i].hmac_secret,
                                            now |-> 0]]
       IN  procs' = Forget(p, [procs EXCEPT ![p] = mine])
    /\ UNCHANGED derived
    /\ UNCHANGED <<clock, ticks, rnd, servers, api_nonces, heartbeats, subrecords,
                   jwts, creds, rtoks>>

\* replay check: read api_nonces
IngestNonceCheck(p) ==
    /\ procs[p].pc = "ingest_nonce"
    /\ LET l == procs[p].loc
           r == procs[p].req
       IN  procs' = [procs EXCEPT ![p] =
                IF isNonceUsed(l.orgId, l.agentId, r.nonce)
                  THEN Answer(@, 409, "Nonce already used (replay detected)", [x |-> 0])
                  ELSE [@ EXCEPT !.pc = "ingest_store"]]
    /\ UNCHANGED derived
    /\ UNCHANGED <<clock, ticks, rnd, ningest, servers, api_nonces, heartbeats, subrecords,
                   jwts, creds, rtoks>>

\* the nonce inserted before the signature is verified
IngestStoreNonce_first(p) ==
    /\ procs[p].pc = "ingest_store"
    /\ LET l == procs[p].loc
           r == procs[p].req
           isValidHMAC == verifyHMAC(l.hmac_secret, r.timestamp, r.nonce,
                                     hashBody(r.body), r.signature)
           row == [org_id |-> l.orgId, agent_id |-> l.agentId, nonce |-> r.nonce,
                   ts |-> clock, stamp |-> r.timestamp]
       IN  IF ~NonceInsertOk(l.orgId, l.agentId, r.nonce)
             THEN /\ procs' = [procs EXCEPT ![p] =
                         Answer(@, 500, "Internal server error", [x |-> 0])]
                  /\ UNCHANGED api_nonces
           ELSE IF ~isValidHMAC
             THEN /\ procs' = [procs EXCEPT ![p] =
                         Answer(@, 403, "Invalid HMAC signature", [x |-> 0])]
                  /\ api_nonces' = api_nonces \cup {row}
           ELSE /\ api_nonces' = api_nonces \cup {row}
                /\ procs' = [procs EXCEPT ![p] = [@ EXCEPT !.pc = "ingest_servers",
                                                           !.wrote = TRUE]]
    /\ UNCHANGED derived
    /\ UNCHANGED <<clock, ticks, rnd, ningest, servers, heartbeats, subrecords, jwts, creds, rtoks>>

\* the nonce inserted only for a body that parses and validates
IngestStoreNonce_valid(p) ==
    /\ procs[p].pc = "ingest_store"
    /\ LET l == procs[p].loc
           r == procs[p].req
           isValidHMAC == verifyHMAC(l.hmac_secret, r.timestamp, r.nonce,
                                     hashBody(r.body), r.signature)
           row == [org_id |-> l.orgId, agent_id |-> l.agentId, nonce |-> r.nonce,
                   ts |-> clock, stamp |-> r.timestamp]
       IN  IF ~isValidHMAC
             THEN /\ procs' = [procs EXCEPT ![p] =
                         Answer(@, 403, "Invalid HMAC signature", [x |-> 0])]
                  /\ UNCHANGED api_nonces
           ELSE IF ~NonceInsertOk(l.orgId, l.agentId, r.nonce)
             THEN /\ procs' = [procs EXCEPT ![p] =
                         Answer(@, 500, "Internal server error", [x |-> 0])]
                  /\ UNCHANGED api_nonces
           ELSE /\ api_nonces' = IF Body(r.body).json /\ IngestPayloadSchema(Body(r.body))
                                   THEN api_nonces \cup {row} ELSE api_nonces
                /\ procs' = [procs EXCEPT ![p] = [@ EXCEPT !.pc = "ingest_servers",
                                                           !.wrote = TRUE]]
    /\ UNCHANGED derived
    /\ UNCHANGED <<clock, ticks, rnd, ningest, servers, heartbeats, subrecords, jwts, creds, rtoks>>

\* read the body, verify the signature, insert the nonce (a failed insert throws)
IngestStoreNonce(p) ==
    /\ procs[p].pc = "ingest_store"
    /\ LET l == procs[p].loc
           r == procs[p].req
           isValidHMAC == verifyHMAC(l.hmac_secret, r.timestamp, r.nonce,
                                     hashBody(r.body), r.signature)
           row == [org_id |-> l.orgId, agent_id |-> l.agentId, nonce |-> r.nonce,
                   ts |-> clock, stamp |-> r.timestamp]
       IN  IF ~isValidHMAC
             THEN /\ procs' = [procs EXCEPT ![p] =
                         Answer(@, 403, "Invalid HMAC signature", [x |-> 0])]
                  /\ UNCHANGED api_nonces
           ELSE IF ~NonceInsertOk(l.orgId, l.agentId, r.nonce)
             THEN /\ procs' = [procs EXCEPT ![p] =
                         Answer(@, 500, "Internal server error", [x |-> 0])]
                  /\ UNCHANGED api_nonces
           ELSE /\ api_nonces' = api_nonces \cup {row}
                /\ procs' = [procs EXCEPT ![p] = [@ EXCEPT !.pc = "ingest_servers",
                                                           !.wrote = TRUE]]
    /\ UNCHANGED derived
    /\ UNCHANGED <<clock, ticks, rnd, ningest, servers, heartbeats, subrecords, jwts, creds, rtoks>>

\* an update that takes the machine_id of the body as well
IngestFacts_ident(row, data, now) ==
    [row EXCEPT !.hostname = data.hostname, !.last_seen = now,
                !.machine_id = data.machine_id]

\* ingest: facts from the body and last_seen
IngestFacts(row, data, now) == [row EXCEPT !.hostname = data.hostname, !.last_seen = now]

\* servers.cores is of type int: a larger number of cores makes the update fail
ServersUpdateOk(data) == data.cores_hi <= INT4_MAX_HI

\* heartbeats.uptime_s is of type bigint: a larger uptime makes the insert fail
HeartbeatInsertOk(data) == data.uptime_hi <= INT8_MAX_HI

\* parse and validate the body, take now, update the facts and last_seen of the
\* host's row; the result of the update is not looked at
IngestUpdateServer(p) ==
    /\ procs[p].pc = "ingest_servers"
    /\ LET l == procs[p].loc
           data == Body(procs[p].req.body)
           f == [row \in ServerRows |-> IngestFacts(row, data, clock)]
       IN  IF ~data.json
             THEN /\ procs' = [procs EXCEPT ![p] =
                         Answer(@, 500, "Internal server error", [x |-> 0])]
                  /\ UNCHANGED servers
           ELSE IF ~IngestPayloadSchema(data)
             THEN /\ procs' = [procs EXCEPT ![p] =
                         Answer(@, 422, "Validation failed", [x |-> 0])]
                  /\ UNCHANGED servers
           ELSE /\ servers' = IF ServersUpdateOk(data) THEN ServersUpdate(l.agentId, f)
                                                        ELSE servers
                /\ procs' = [procs EXCEPT ![p] = [@ EXCEPT !.pc = "ingest_heartbeat",
                                                           !.loc.now = clock]]
    /\ UNCHANGED derived
    /\ UNCHANGED <<clock, ticks, rnd, ningest, api_nonces, heartbeats, subrecords, jwts, creds, rtoks>>

\* a telemetry row; nonce records the request that wrote it
TelemetryRow(table, l, ts, nonce) ==
    [table |-> table, org_id |-> l.orgId, server_id |-> l.id, ts |-> ts, nonce |-> nonce]

\* a heartbeats row: ts = heartbeat.ts of the body (minute and half minute within it);
\* nonce and at record the request that wrote it and the server time of the request
HeartbeatRow(l, data, nonce) ==
    [table |-> "heartbeats", org_id |-> l.orgId, server_id |-> l.id, ts |-> data.hb_ts,
     half |-> data.hb_half, cpu_pct |-> data.cpu_pct, nonce |-> nonce, at |-> l.now]

\* insert the heartbeat row, ts = heartbeat.ts of the body
IngestInsertHeartbeat(p) ==
    /\ procs[p].pc = "ingest_heartbeat"
    /\ LET l == procs[p].loc
           r == procs[p].req
           row == HeartbeatRow(l, Body(r.body), r.nonce)
       IN  /\ heartbeats' = IF HeartbeatInsertOk(Body(r.body))
                               THEN heartbeats (+) SetToBag({row}) ELSE heartbeats
           /\ procs' = [procs EXCEPT ![p] = [@ EXCEPT !.pc = "ingest_rest"]]
    /\ UNCHANGED derived
    /\ UNCHANGED <<clock, ticks, rnd, ningest, servers, api_nonces, subrecords, jwts, creds, rtoks>>

\* table.insert(rows) of n equal rows; nothing is sent for an empty list
InsertRows(table, row, n) == IF n > 0 THEN table (+) [x \in {row} |-> n] ELSE table

\* processes.pid is of type int: a larger pid makes the insert of the list fail
ProcessesInsertOk(data) == data.pid_hi <= INT4_MAX_HI

\* insert the sub-record rows (disks and processes with ts = now, logs with the ts
\* of the entry; the results are not looked at) and answer 200 with received_at = now
IngestInsertRest(p) ==
    /\ procs[p].pc = "ingest_rest"
    /\ LET l == procs[p].loc
           r == procs[p].req
           data == Body(r.body)
           withDisks == InsertRows(subrecords, TelemetryRow("disks", l, l.now, r.nonce),
                                   data.disks)
           withProcesses == IF ProcessesInsertOk(data)
                              THEN InsertRows(withDisks,
                                              TelemetryRow("processes", l, l.now, r.nonce),
                                              data.processes)
                              ELSE withDisks
       IN  /\ subrecords' = InsertRows(withProcesses,
                                       TelemetryRow("logs", l, data.log_ts, r.nonce),
                                       data.logs)
           /\ procs' = [procs EXCEPT ![p] = Answer(@, 200, "", [received_at |-> l.now])]
    /\ UNCHANGED derived
    /\ UNCHANGED <<clock, ticks, rnd, ningest, servers, api_nonces, heartbeats, jwts, creds, rtoks>>

\* ------------------------------------------------------------- clock ----
\* a minute passes
Tick ==
    /\ ticks < MaxTicks
    /\ clock' = clock + 1
    /\ ticks' = ticks + 1
    /\ UNCHANGED derived
    /\ UNCHANGED <<rnd, ningest, servers, api_nonces, heartbeats, subrecords, procs,
                   jwts, creds, rtoks>>

\* ---------------------------------------------------- specifications ----
Init ==
    /\ clock = 0 /\ ticks = 0 /\ rnd = 0 /\ ningest = 0
    /\ servers = <<>>
    /\ api_nonces = {}
    /\ heartbeats = EmptyBag
    /\ subrecords = EmptyBag
    /\ procs = [p \in Procs |-> Idle]
    /\ jwts = {} /\ creds = {} /\ rtoks = {}
    /\ alerts = {} /\ rollup_1m = {} /\ rollup_1h = {}
    /\ cronSecret = "CRON_SECRET"

\* enroll and rotate, two instances interleaved
NextCred ==
    \/ \E p \in Procs, r \in EnrollRequests : EnrollBegin(p, r)
    \/ \E p \in Procs : EnrollUpdate(p)
    \/ \E p \in Procs : EnrollInsert(p)
    \/ \E p \in Procs, r \in RotateRequests : RotateBegin(p, r)
    \/ \E p \in Procs : RotateUpdate(p)

SpecCred == Init /\ [][NextCred]_vars

\* the store and the credentials in agents' hands after, at time 0: two enrollments of
\* (o1, F1) that raced (agent 1 stored, agent 2 handed out but not stored) and
\* an enrollment of (o2, F1) (agent 3)
ServerRow(org, n) ==
    [org_id |-> org, agent_id |-> n, hostname |-> "ha", machine_id |-> "F1",
     hmac_secret |-> n, refresh_token |-> n, first_seen |-> 0, last_seen |-> 0]

Fleet ==
    /\ rnd = 3
    /\ servers = <<ServerRow("o1", 1), ServerRow("o2", 3)>>
    /\ api_nonces = {}
    /\ heartbeats = EmptyBag
    /\ subrecords = EmptyBag
    /\ jwts = {createAgentJWT(1, "o1", 0), createAgentJWT(2, "o1", 0),
               createAgentJWT(3, "o2", 0)}
    /\ creds = {[agent_id |-> 1, org_id |-> "o1", hmac_secret |-> 1],
                [agent_id |-> 2, org_id |-> "o1", hmac_secret |-> 2],
                [agent_id |-> 3, org_id |-> "o2", hmac_secret |-> 3]}
    /\ rtoks = {[agent_id |-> 1, refresh_token |-> 1],
                [agent_id |-> 2, refresh_token |-> 2],
                [agent_id |-> 3, refresh_token |-> 3]}

\* an hour after these enrollments: the tokens are in their last valid minute
InitFleet ==
    /\ Fleet /\ clock = JWT_TTL_MINUTES /\ ticks = 0 /\ ningest = 0
    /\ procs = [p \in Procs |-> Idle]
    /\ alerts = {} /\ rollup_1m = {} /\ rollup_1h = {}
    /\ cronSecret = "CRON_SECRET"

\* the ingest steps after IngestBegin
IngestSteps(p) ==
    \/ IngestNonceCheck(p)
    \/ IngestStoreNonce(p)
    \/ IngestUpdateServer(p)
    \/ IngestInsertHeartbeat(p)
    \/ IngestInsertRest(p)

\* requests of the agent of server 1 that can collide: a new request stamped now
\* (two nonces, two bodies), or a request sent before, sent again unchanged
RaceRequests ==
    { IngestReq(createAgentJWT(1, "o1", 0), clock, n, Sign(1, clock, n, b), b) :
        n \in {"n1", "n2"}, b \in {"B1", "B2"} }
    \cup { procs[q].req : q \in {q \in Procs : procs[q].op = "ingest"} }

\* two ingest instances interleaved, the clock advancing between any two steps
NextIngest ==
    \/ \E p \in Procs, r \in RaceRequests : IngestBegin(p, r)
    \/ \E p \in Procs : IngestSteps(p)
    \/ Tick

SpecIngest == InitFleet /\ [][NextIngest]_vars

\* ---- requests for the checks of the authenticator, one instance ----
Forged == [createAgentJWT(1, "o1", 0) EXCEPT !.key = "forged"]

\* the secret handed out with agent a's credentials
SecretOf(a) == (CHOOSE c \in creds : c.agent_id = a).hmac_secret

\* every token in circulation and a forged one, fresh and stale timestamps, own
\* and foreign signing secret, each with all headers or one header missing
OrderRequests ==
    { IngestReq(IF h = "auth" THEN NoToken ELSE j,
                IF h = "ts" THEN NoTimestamp ELSE clock + d,
                IF h = "nonce" THEN NoNonce ELSE "n1",
                IF h = "sig" THEN NoSignature ELSE Sign(k, clock + d, "n1", "B1"),
                "B1") :
        j \in jwts \cup {Forged}, d \in {0, 6}, k \in {1, 3},
        h \in {"", "auth", "ts", "nonce", "sig"} }

\* timestamps around the tolerance, past and future, and an unparseable one
SkewRequests ==
    { IngestReq(createAgentJWT(1, "o1", 0), t, "n1", Sign(1, t, "n1", "B1"), "B1") :
        t \in {clock - 6, clock - 5, clock + 5, clock + 6, NaN} }

\* signatures made with either stored secret over this or another timestamp,
\* nonce and body
SignedRequests ==
    { IngestReq(j, clock, "n1", Sign(k, t, n, b), body) :
        j \in {createAgentJWT(1, "o1", 0), createAgentJWT(3, "o2", 0)},
        k \in {1, 3}, t \in {clock, clock + 1}, n \in {"n1", "n2"},
        b \in {"B1", "Bbad"}, body \in {"B1", "Bbad"} }

AuthRequests ==
    OrderRequests \cup SkewRequests \cup SignedRequests
    \cup { procs[q].req : q \in {q \in Procs : procs[q].op = "ingest"} }

\* one ingest instance, requests one after the other
NextAuth ==
    \/ \E r \in AuthRequests : IngestBegin("p1", r)
    \/ IngestSteps("p1")
    \/ Tick

SpecAuth == InitFleet /\ [][NextAuth]_vars

\* valid requests of any agent holding a token and its secret
LifeRequests ==
    { IngestReq(j, clock, "n1", Sign(SecretOf(j.sub), clock, "n1", "B2"), "B2") : j \in jwts }

\* enroll and re-enroll of one host, rotate and ingest from the empty store, two
\* instances interleaved
NextLife ==
    \/ \E p \in Procs, h \in {"ha", "hb"} : EnrollBegin(p, EnrollReq("S1", "F1", h))
    \/ \E p \in Procs : EnrollUpdate(p)
    \/ \E p \in Procs : EnrollInsert(p)
    \/ \E p \in Procs, r \in RotateRequests : RotateBegin(p, r)
    \/ \E p \in Procs : RotateUpdate(p)
    \/ \E p \in Procs, r \in LifeRequests : IngestBegin(p, r)
    \/ \E p \in Procs : IngestSteps(p)

SpecLife == Init /\ [][NextLife]_vars


\* ---- token lifetime: one host an hour after its enrollment ----
\* at time 0 two enrollments of (o1, F1) raced: agent 1 is stored, agent 2 was
\* handed out but is not stored
Host ==
    /\ rnd = 2
    /\ servers = <<ServerRow("o1", 1)>>
    /\ api_nonces = {}
    /\ heartbeats = EmptyBag
    /\ subrecords = EmptyBag
    /\ jwts = {createAgentJWT(1, "o1", 0), createAgentJWT(2, "o1", 0)}
    /\ creds = {[agent_id |-> 1, org_id |-> "o1", hmac_secret |-> 1],
                [agent_id |-> 2, org_id |-> "o1", hmac_secret |-> 2]}
    /\ rtoks = {[agent_id |-> 1, refresh_token |-> 1],
                [agent_id |-> 2, refresh_token |-> 2]}

\* the tokens of time 0 are in their last valid minute
InitTok ==
    /\ Host /\ clock = JWT_TTL_MINUTES /\ ticks = 0 /\ ningest = 0
    /\ procs = [p \in Procs |-> Idle]
    /\ alerts = {} /\ rollup_1m = {} /\ rollup_1h = {}
    /\ cronSecret = "CRON_SECRET"

\* a correctly signed request stamped now, under any token handed out so far
TokRequests ==
    { IngestReq(j, clock, "n1", Sign(SecretOf(j.sub), clock, "n1", "B1"), "B1") : j \in jwts }

\* re-enroll, rotate and ingest of the host, one after the other, the clock advancing
NextTok ==
    \/ EnrollBegin("p1", EnrollReq("S1", "F1", "hb"))
    \/ EnrollUpdate("p1")
    \/ \E r \in RotateRequests : RotateBegin("p1", r)
    \/ RotateUpdate("p1")
    \/ \E r \in TokRequests : IngestBegin("p1", r)
    \/ IngestSteps("p1")
    \/ Tick

SpecTok == InitTok /\ [][NextTok]_vars

\* ---- payloads: one ingest instance, requests of the hosts of the fleet ----
\* correctly signed requests stamped now with each kind of body, or a request
\* sent before, sent again unchanged
PayRequests ==
    { IngestReq(j, clock, n, Sign(j.sub, clock, n, b), b) :
        j \in {createAgentJWT(1, "o1", 0), createAgentJWT(3, "o2", 0)},
        n \in {"n1", "n2"},
        b \in {"B1", "B1x", "Bbad", "Bcap", "Bproc", "Blogs", "Bpid", "not json"} }
    \cup { procs[q].req : q \in {q \in Procs : procs[q].op = "ingest"} }

NextPay ==
    \/ \E r \in PayRequests : IngestBegin("p1", r)
    \/ IngestSteps("p1")
    \/ Tick

SpecPay == InitFleet /\ [][NextPay]_vars

\* ------------------------------------------------------------ claims ----
Done(p, op) == procs[p].op = op /\ procs[p].pc = "done"

\* rows of a telemetry table written for server s by requests carrying nonce n
RowsFor(table, s, n) ==
    LET hit == {row \in BagToSet(table) : row.server_id = s /\ row.nonce = n}
    IN  BagCardinality([row \in hit |-> table[row]])

\* q re-submitted, after p had been answered 200, the request p had sent, and was
\* answered while the timestamp of that request was within the tolerance
Replayed(p, q) ==
    /\ p # q /\ Done(p, "ingest") /\ Done(q, "ingest")
    /\ procs[p].status = 200
    /\ p \in procs[q].prior
    /\ procs[q].req = procs[p].req
    /\ Abs(procs[q].tEnd - procs[q].req.timestamp) <= SKEW_MINUTES

\* the replay wrote nothing and the batch of the first request is there once
NoDuplicate(p, q) ==
    /\ ~procs[q].wrote
    /\ RowsFor(heartbeats, procs[p].loc.id, procs[p].req.nonce) = 1
    /\ RowsFor(subrecords, procs[p].loc.id, procs[p].req.nonce)
         = Body(procs[p].req.body).disks

\* C1 as claimed: a request answered 200 and re-submitted unchanged while its
\* timestamp is fresh is answered 409 and adds no heartbeat or sub-record row
C1_ReplayIs409 ==
    \A p, q \in Procs : Replayed(p, q) => procs[q].status = 409 /\ NoDuplicate(p, q)

\* C1 amended: such a replay is answered 409, or 401 when its access token has
\* expired since the first submission; it is never accepted and adds no row
C1_ReplayRejected ==
    \A p, q \in Procs : Replayed(p, q) =>
        /\ \/ procs[q].status = 409
           \/ procs[q].status = 401 /\ procs[q].req.auth.exp < procs[q].t0
        /\ procs[q].req.auth.exp >= procs[q].t0 => procs[q].status = 409
        /\ NoDuplicate(p, q)

C1_Witness ==
    \E p, q \in Procs : Replayed(p, q) /\ procs[q].status = 409

C1_WitnessExpired ==
    \E p, q \in Procs : Replayed(p, q) /\ procs[q].status = 401

\* C2: of the ingest requests carrying one (org, agent, nonce), in every
\* interleaving at most one writes telemetry: the store never holds more than one
\* heartbeat row, nor more sub-record rows than one batch has, for a server and a
\* nonce, and no two requests with the same nonce are both past the nonce insert
C2_ExactlyOnce ==
    /\ \A i \in RowIds, n \in {"n1", "n2"} :
          /\ RowsFor(heartbeats, i, n) <= 1
          /\ RowsFor(subrecords, i, n) <= 1
    /\ \A p, q \in Procs :
          (/\ p # q /\ procs[p].op = "ingest" /\ procs[q].op = "ingest"
           /\ procs[p].wrote /\ procs[q].wrote
           /\ procs[p].loc.agentId = procs[q].loc.agentId)
          => procs[p].req.nonce # procs[q].req.nonce

\* two requests with the same nonce had both passed the replay read; one wrote
\* its batch, the other failed on the nonce insert
C2_Witness ==
    \E p, q \in Procs :
        /\ p # q /\ Done(p, "ingest") /\ Done(q, "ingest")
        /\ procs[p].req.nonce = procs[q].req.nonce
        /\ procs[p].status = 200 /\ procs[q].status = 500
        /\ RowsFor(heartbeats, procs[p].loc.id, procs[p].req.nonce) = 1

\* missing, stale, not minted here or expired, unknown host, other tenant, bad
\* signature: what is wrong with request r at server time now
Missing(r) ==
    \/ r.auth = NoToken \/ r.timestamp = NoTimestamp
    \/ r.nonce = NoNonce \/ r.signature = NoSignature
Stale(r, now) ==
    \/ r.timestamp = NaN
    \/ r.timestamp - now > SKEW_MINUTES
    \/ now - r.timestamp > SKEW_MINUTES
TokenBad(r, now) == r.auth \notin jwts \/ r.auth.exp < now
HostUnknown(r) == \A i \in RowIds : servers[i].agent_id # r.auth.sub
TenantMismatch(r) ==
    \E i \in RowIds : servers[i].agent_id = r.auth.sub /\ servers[i].org_id # r.auth.org_id
BadSignature(r) ==
    \A i \in RowIds : servers[i].agent_id = r.auth.sub =>
        r.signature # Sign(servers[i].hmac_secret, r.timestamp, r.nonce, r.body)

\* the status an answered request must carry when check k is its first failing one
FirstFailure(p) ==
    LET r == procs[p].req
        now == procs[p].t0
        st == procs[p].status
    IN  IF Missing(r) THEN st = 400
        ELSE IF Stale(r, now) THEN st = 401
        ELSE IF TokenBad(r, now) THEN st = 401
        ELSE IF HostUnknown(r) THEN st = 403
        ELSE IF TenantMismatch(r) THEN st = 403
        ELSE IF procs[p].replay0 THEN st = 409
        ELSE IF BadSignature(r) THEN st = 403 \/ (st = 409 /\ NonceStored(r))
        ELSE st \notin {400, 401, 403}

\* C3: an ingest request is answered with the status of its first failing check
\* in the order headers 400, timestamp 401, token 401, unknown host 403, tenant
\* 403, replay 409, signature 403, whatever else is wrong with it
C3_VerificationOrder == \A p \in Procs : Done(p, "ingest") => FirstFailure(p)

\* a request replaying a recorded nonce with a wrong signature was answered 409
C3_Witness ==
    \E p \in Procs :
        /\ Done(p, "ingest") /\ procs[p].status = 409
        /\ procs[p].replay0 /\ BadSignature(procs[p].req)

AuthRejected(rec) == rec.op = "ingest" /\ rec.pc = "done" /\ rec.status \in {400, 401, 403, 409}

\* all five checks hold of request r received at server time now, its nonce recorded
AllChecksPassed(r, now) ==
    /\ ~Missing(r) /\ ~Stale(r, now) /\ ~TokenBad(r, now)
    /\ ~HostUnknown(r) /\ ~TenantMismatch(r)
    /\ ~BadSignature(r) /\ NonceStored(r)

\* every request that is at the ingestion writes has passed all checks
WritersChecked ==
    \A p \in Procs :
        (procs[p].op = "ingest"
         /\ procs[p].pc \in {"ingest_servers", "ingest_heartbeat", "ingest_rest"})
        => AllChecksPassed(procs[p].req, procs[p].t0)

\* C4: the step that rejects an ingest request with 400, 401, 403 or 409 leaves
\* servers, api_nonces, heartbeats and the sub-record tables as they were, the
\* request has written nothing before, and a request is at the ingestion writes
\* only after all checks passed
C4_RejectedWritesNothing ==
    [][/\ \A p \in Procs :
            (AuthRejected(procs'[p]) /\ procs'[p] # procs[p]) =>
                store' = store /\ ~procs'[p].wrote
       /\ WritersChecked']_vars

\* a request was rejected for its signature, the last of the checks
C4_Witness ==
    \E p \in Procs :
        /\ AuthRejected(procs[p]) /\ procs[p].msg = "Invalid HMAC signature"
        /\ ~NonceStored(procs[p].req)

\* C5: a request with all headers whose timestamp is unparseable or more than 5
\* minutes before or after server time is answered 401; one within 5 minutes,
\* 5 included, is not rejected for its timestamp
C5_TimestampFreshness ==
    \A p \in Procs : (Done(p, "ingest") /\ ~Missing(procs[p].req)) =>
        IF Stale(procs[p].req, procs[p].t0)
          THEN procs[p].status = 401
          ELSE procs[p].msg # "Invalid or expired timestamp"

\* a request stamped exactly 5 minutes ahead of server time was accepted
C5_Witness ==
    \E p \in Procs :
        /\ Done(p, "ingest") /\ procs[p].status = 200
        /\ procs[p].req.timestamp - procs[p].t0 = SKEW_MINUTES

\* the request came to the signature check: no earlier check failed
AtSignatureCheck(p) ==
    LET r == procs[p].req
    IN  /\ Done(p, "ingest")
        /\ ~Missing(r) /\ ~Stale(r, procs[p].t0) /\ ~TokenBad(r, procs[p].t0)
        /\ ~HostUnknown(r) /\ ~TenantMismatch(r)
        /\ ~procs[p].replay0 /\ procs[p].status # 409

\* C6: a request that comes to the signature check passes it if and only if
\* X-Signature is the HMAC, keyed with the secret stored for the token's host, of
\* timestamp, nonce and body hash; otherwise it is answered 403
C6_SignatureBinding ==
    \A p \in Procs : AtSignatureCheck(p) =>
        (BadSignature(procs[p].req)
            <=> (procs[p].status = 403 /\ procs[p].msg = "Invalid HMAC signature"))

\* a signature made with the stored secret of another host over the right
\* timestamp, nonce and body was answered 403
C6_Witness ==
    \E p \in Procs, i \in RowIds :
        /\ AtSignatureCheck(p) /\ procs[p].status = 403
        /\ servers[i].agent_id # procs[p].req.auth.sub
        /\ procs[p].req.signature = Sign(servers[i].hmac_secret, procs[p].req.timestamp,
                                         procs[p].req.nonce, procs[p].req.body)

\* p and q answered 200 to enroll calls with the same secret and fingerprint,
\* neither call overlapping another enroll call for that fingerprint
EnrolledTwice(p, q) ==
    /\ p # q /\ Done(p, "enroll") /\ Done(q, "enroll")
    /\ procs[p].status = 200 /\ procs[q].status = 200
    /\ SameHost(procs[p].req, procs[q].req)
    /\ ~procs[p].overlap /\ ~procs[q].overlap

RowsOf(orgId, machineId) ==
    {i \in RowIds : servers[i].org_id = orgId /\ servers[i].machine_id = machineId}

\* C7: two successful enroll calls made one after the other with the same tenant
\* secret and fingerprint return the same agent_id and the same hmac_secret, and
\* servers holds exactly one row for that (org, machine_id)
C7_EnrollIdempotent ==
    \A p, q \in Procs : EnrolledTwice(p, q) =>
        /\ procs[p].resp.agent_id = procs[q].resp.agent_id
        /\ procs[p].resp.hmac_secret = procs[q].resp.hmac_secret
        /\ Cardinality(RowsOf(procs[p].resp.org_id, procs[p].req.machine_id)) = 1

\* a first enrollment and a re-enrollment with changed facts were both answered
C7_Witness ==
    \E p, q \in Procs :
        /\ EnrolledTwice(p, q)
        /\ procs[p].req.hostname # procs[q].req.hostname

\* C8 as claimed: every enroll call answered 200, raced or not, was handed the
\* agent_id and hmac_secret of the one row stored for its (org, machine_id)
C8_RaceReturnsStoredRow ==
    \A p \in Procs : (Done(p, "enroll") /\ procs[p].status = 200) =>
        /\ Cardinality(RowsOf(procs[p].resp.org_id, procs[p].req.machine_id)) = 1
        /\ \E i \in RowsOf(procs[p].resp.org_id, procs[p].req.machine_id) :
              /\ servers[i].agent_id = procs[p].resp.agent_id
              /\ servers[i].hmac_secret = procs[p].resp.hmac_secret

\* C9: a servers row, once created, stays, and keeps its org_id, machine_id,
\* agent_id and hmac_secret in every step of enroll, rotate and ingest; its
\* refresh_token changes only in the step in which a rotate for its agent_id is
\* answered 200, to the token of that answer
C9_CredentialPermanence ==
    [][\A i \in RowIds :
          /\ i \in 1..Len(servers')
          /\ servers'[i].org_id = servers[i].org_id
          /\ servers'[i].machine_id = servers[i].machine_id
          /\ servers'[i].agent_id = servers[i].agent_id
          /\ servers'[i].hmac_secret = servers[i].hmac_secret
          /\ servers'[i].refresh_token # servers[i].refresh_token =>
                \E p \in Procs :
                    /\ procs[p].pc = "rotate_update"
                    /\ procs[p].req.agent_id = servers[i].agent_id
                    /\ procs'[p].pc = "done" /\ procs'[p].status = 200
                    /\ procs'[p].resp.refresh_token = servers'[i].refresh_token]_vars

\* a host was rotated, then re-enrolled (the answer carries the rotated token),
\* and an ingest for it was answered 200
C9_Witness ==
    \E p, q \in Procs, i \in RowIds :
        /\ Done(p, "enroll") /\ procs[p].status = 200
        /\ procs[p].resp.agent_id = servers[i].agent_id
        /\ procs[p].resp.refresh_token # servers[i].hmac_secret
        /\ Done(q, "ingest") /\ procs[q].status = 200 /\ procs[q].loc.id = i
        /\ servers[i].hmac_secret = procs[p].resp.hmac_secret

\* the secret of request r is the secret of no org
NoTenant(r) == \A o \in orgs : o.enroll_secret_hash # hashSecret(r.org_enroll_secret)

RotateTaken(q) ==
    /\ procs[q].pc = "done" /\ procs'[q].op = "rotate"
    /\ procs'[q] # [procs[q] EXCEPT !.prior = procs'[q].prior]

\* the refresh token most recently handed out for agent a (generated values grow)
LatestToken(a) ==
    LET S == {k.refresh_token : k \in {k \in rtoks : k.agent_id = a}}
    IN  CHOOSE m \in S : \A x \in S : x <= m

\* C11: once a rotate presenting (agent, T) has been answered 200, a rotate taken
\* up later for that agent with T is answered 403 "Invalid refresh token"; a
\* rotate is accepted only when it presents the refresh token handed out most
\* recently for the agent
C11_TokenSingleUse ==
    [][\A q \in Procs : RotateTaken(q) =>
          LET r == procs'[q].req
          IN  /\ (\E p \in procs'[q].prior :
                      /\ procs[p].op = "rotate" /\ procs[p].status = 200
                      /\ procs[p].req = r)
                   => (/\ procs'[q].pc = "done" /\ procs'[q].status = 403
                       /\ procs'[q].msg = "Invalid refresh token")
              /\ procs'[q].pc = "rotate_update"
                   => r.refresh_token = LatestToken(r.agent_id)]_vars

\* a rotate was answered 200, the same pair presented afterwards was answered 403,
\* and the token returned by the first is the stored one
C11_Witness ==
    \E p, q \in Procs :
        /\ p # q /\ Done(p, "rotate") /\ Done(q, "rotate")
        /\ procs[p].status = 200 /\ procs[q].status = 403
        /\ procs[q].req = procs[p].req /\ p \in procs[q].prior
        /\ \E i \in RowIds : /\ servers[i].agent_id = procs[p].req.agent_id
                             /\ servers[i].refresh_token = procs[p].resp.refresh_token

\* C12: of two rotate requests that presented the same agent and refresh token, at
\* most one is answered 200, and the refresh token in its answer is the stored one
C12_RotateRaceOneWinner ==
    \A p, q \in Procs :
        (/\ p # q /\ Done(p, "rotate") /\ Done(q, "rotate")
         /\ procs[p].req = procs[q].req /\ procs[p].status = 200) =>
            /\ procs[q].status # 200
            /\ \E i \in RowIds : /\ servers[i].agent_id = procs[p].req.agent_id
                                 /\ servers[i].refresh_token = procs[p].resp.refresh_token

IngestTaken(p) ==
    /\ procs[p].pc = "done" /\ procs'[p].op = "ingest"
    /\ procs'[p] # [procs[p] EXCEPT !.prior = procs'[p].prior]

\* what the token itself says at server time now
TokenGood(j, now) ==
    /\ j.key = JWT_SECRET /\ j.iss = JWT_ISSUER /\ j.aud = JWT_AUDIENCE
    /\ now <= j.exp

RejectedForToken(rec) ==
    rec.pc = "done" /\ rec.status = 401 /\ rec.msg = "JWT verification failed"

C15_TokenExpiry ==
    [][/\ \A j \in jwts' \ jwts : j.exp = clock + JWT_TTL_MINUTES
       /\ \A p \in Procs : IngestTaken(p) =>
             LET r == procs'[p].req
             IN  /\ (~Missing(r) /\ ~Stale(r, clock) /\ r.auth.exp < clock) =>
                        /\ RejectedForToken(procs'[p])
                        /\ store' = store /\ ~procs'[p].wrote
                 /\ procs'[p].pc # "done" =>
                        /\ r.auth \in jwts
                        /\ clock <= r.auth.exp
                        /\ clock <= (r.auth.exp - JWT_TTL_MINUTES) + 60]_vars

\* the expired token of an agent without a row was answered 401 (not 403), and a
\* token minted after the first hour carries the later expiry
C15_Witness ==
    \E p \in Procs :
        /\ Done(p, "ingest") /\ RejectedForToken(procs[p])
        /\ procs[p].req.auth = createAgentJWT(2, "o1", 0)
        /\ procs[p].t0 = JWT_TTL_MINUTES + 1
        /\ createAgentJWT(1, "o1", JWT_TTL_MINUTES + 1) \in jwts

\* ---- ingestion writes ----
\* the rows of bag t2 that are not in bag t1
NewRows(t1, t2) == {x \in BagToSet(t2) : CopiesIn(x, t2) > CopiesIn(x, t1)}

\* C16: a step of an ingest request adds rows only for the agent and org of its
\* token (nonce row) and for the server row of that agent, whose org is the
\* token's org (heartbeat and sub-record rows); it changes no other servers row,
\* and leaves agent_id, org_id, machine_id and the credentials of that row alone,
\* whatever server.agent_id and machine_id the body names
C16_AttributionFromToken ==
    [][\A p \in Procs :
          (procs[p].op = "ingest" /\ procs[p].pc # "done" /\ procs'[p] # procs[p]) =>
              LET r == procs[p].req
                  i == getServerByAgentId(r.auth.sub)
              IN  /\ \A n \in api_nonces' \ api_nonces :
                        n.org_id = r.auth.org_id /\ n.agent_id = r.auth.sub
                  /\ \A x \in NewRows(heartbeats, heartbeats') \cup NewRows(subrecords, subrecords') :
                        /\ i # 0 /\ x.server_id = i
                        /\ x.org_id = r.auth.org_id /\ x.org_id = servers[i].org_id
                  /\ Len(servers') = Len(servers)
                  /\ \A k \in RowIds :
                        /\ k # i => servers'[k] = servers[k]
                        /\ servers'[k].agent_id = servers[k].agent_id
                        /\ servers'[k].org_id = servers[k].org_id
                        /\ servers'[k].machine_id = servers[k].machine_id
                        /\ servers'[k].hmac_secret = servers[k].hmac_secret]_vars

\* a request under the token of agent 1 whose body names agent 3 and another
\* machine_id was accepted: its rows are on server row 1, row 2 is untouched
C16_Witness ==
    \E p \in Procs :
        /\ Done(p, "ingest") /\ procs[p].status = 200 /\ procs[p].req.body = "B1x"
        /\ procs[p].req.auth.sub = 1
        /\ RowsFor(heartbeats, 1, procs[p].req.nonce) = 1
        /\ RowsFor(heartbeats, 2, procs[p].req.nonce) = 0
        /\ servers[1].last_seen = procs[p].loc.now /\ servers[1].machine_id = "F1"
        /\ servers[2] = ServerRow("o2", 3)

\* rows the batch of request rec consists of
BatchSize(rec) ==
    LET data == Body(rec.req.body)
    IN  data.disks + data.processes + data.logs

\* C17: of the batch of an ingest request that got to the writes, either no
\* heartbeat and no sub-record row is in the tables, or the heartbeat and all
\* sub-record rows are
C17_BatchAtomic ==
    \A p \in Procs :
        (procs[p].op = "ingest" /\ procs[p].wrote) =>
            LET hb == RowsFor(heartbeats, procs[p].loc.id, procs[p].req.nonce)
                sub == RowsFor(subrecords, procs[p].loc.id, procs[p].req.nonce)
            IN  \/ hb = 0 /\ sub = 0
                \/ hb = 1 /\ sub = BatchSize(procs[p])

\* the body is JSON and breaks a validator or a cap
ViolatesSchema(b) ==
    /\ Body(b).json
    /\ (~Body(b).fields \/ Body(b).processes > 50 \/ Body(b).logs > 200)

\* C18: the step that validates the JSON body of an authenticated request answers
\* 422 when the body violates the schema and changes no table; such a request
\* leaves no heartbeat and no sub-record row
C18_SchemaViolationIs422 ==
    [][\A p \in Procs :
          (procs[p].op = "ingest" /\ procs[p].pc = "ingest_servers"
           /\ procs'[p] # procs[p] /\ ViolatesSchema(procs[p].req.body)) =>
              /\ procs'[p].pc = "done" /\ procs'[p].status = 422
              /\ store' = store
              /\ RowsFor(heartbeats', procs[p].loc.id, procs[p].req.nonce) = 0
              /\ RowsFor(subrecords', procs[p].loc.id, procs[p].req.nonce) = 0]_vars

\* a request whose body fails a field validator was answered 422 after its nonce
\* was recorded; the host's row is as enrolled
C18_Witness ==
    \E p \in Procs :
        /\ Done(p, "ingest") /\ procs[p].status = 422 /\ procs[p].req.body = "Bbad"
        /\ procs[p].wrote /\ NonceStored(procs[p].req)
        /\ servers = <<ServerRow("o1", 1), ServerRow("o2", 3)>>
        /\ heartbeats = EmptyBag

\* rows of one sub-record table written for server s by requests carrying nonce n
RowsIn(name, s, n) ==
    LET hit == {row \in BagToSet(subrecords) :
                   row.table = name /\ row.server_id = s /\ row.nonce = n}
    IN  BagCardinality([row \in hit |-> subrecords[row]])

\* C19: an authenticated request whose body passes the field validators is
\* answered 422 with none of its rows stored when it lists more than 50 processes
\* or more than 200 logs, and is answered 200 with all its log rows and (pids
\* fitting the column) process rows stored when it lists at most 50 and 200
C19_ListCaps ==
    \A p \in Procs :
        (Done(p, "ingest") /\ procs[p].wrote /\ Body(procs[p].req.body).json
         /\ Body(procs[p].req.body).fields) =>
            LET data == Body(procs[p].req.body)
                s == procs[p].loc.id
                n == procs[p].req.nonce
            IN  IF data.processes > 50 \/ data.logs > 200
                  THEN /\ procs[p].status = 422
                       /\ RowsFor(heartbeats, s, n) = 0 /\ RowsFor(subrecords, s, n) = 0
                  ELSE /\ procs[p].status = 200
                       /\ RowsIn("logs", s, n) = data.logs
                       /\ data.pid_hi <= INT4_MAX_HI => RowsIn("processes", s, n) = data.processes

\* a body of 51 processes was answered 422 and stored nothing, a body of 50
\* processes and 200 logs sent before under the other nonce is stored in full
C19_Witness ==
    \E p \in Procs : \E n \in {"n1", "n2"} :
        /\ Done(p, "ingest") /\ procs[p].status = 422 /\ procs[p].req.body = "Bproc"
        /\ procs[p].wrote /\ n # procs[p].req.nonce
        /\ RowsFor(subrecords, procs[p].loc.id, procs[p].req.nonce) = 0
        /\ RowsIn("processes", procs[p].loc.id, n) = 50
        /\ RowsIn("logs", procs[p].loc.id, n) = 200

\* the request passed the checks that come before the replay check when received
PassedToReplayCheck(rec) ==
    /\ ~Missing(rec.req) /\ ~Stale(rec.req, rec.t0) /\ ~TokenBad(rec.req, rec.t0)
    /\ ~HostUnknown(rec.req) /\ ~TenantMismatch(rec.req)

\* C20: an answered ingest request that passed the five checks has its (org,
\* agent, nonce) recorded whatever became of its payload (200, 422 or 500); a
\* request that gets to the replay check with a recorded nonce is answered 409;
\* one with an unrecorded nonce, a right signature and a valid body is answered
\* 200 whatever failed before
C20_NonceConsumedAtAuth ==
    \A p \in Procs :
        (Done(p, "ingest") /\ PassedToReplayCheck(procs[p])) =>
            /\ (~procs[p].replay0 /\ ~BadSignature(procs[p].req)) => NonceStored(procs[p].req)
            /\ procs[p].replay0 => procs[p].status = 409
            /\ (~procs[p].replay0 /\ ~BadSignature(procs[p].req)
                /\ Body(procs[p].req.body).json /\ ~ViolatesSchema(procs[p].req.body))
                  => procs[p].status = 200

\* a request re-submitted with the nonce of a request that failed validation was
\* answered 409: the nonce is recorded and has no telemetry row
C20_Witness ==
    \E p \in Procs :
        /\ Done(p, "ingest") /\ procs[p].status = 409 /\ procs[p].replay0
        /\ procs[p].req.body = "Bbad"
        /\ heartbeats = EmptyBag

\* a retry under a fresh nonce was answered 200 while the nonce of the failed
\* request stays recorded without a telemetry row
C20_WitnessRetry ==
    \E p \in Procs : \E n \in api_nonces :
        /\ Done(p, "ingest") /\ procs[p].status = 200
        /\ n.agent_id = procs[p].req.auth.sub /\ n.nonce # procs[p].req.nonce
        /\ RowsFor(heartbeats, procs[p].loc.id, n.nonce) = 0

\* ------------------------------------------------ capture timestamp ----
\* the ts values of the rows that requests carrying nonce n wrote for server s
BatchStamps(s, n) ==
    {row.ts : row \in {x \in BagToSet(heartbeats) \cup BagToSet(subrecords) :
                           x.server_id = s /\ x.nonce = n}}

\* C21: the heartbeat row and every sub-record row of a batch answered 200 carry
\* one and the same timestamp
C21_OneCaptureTimestamp ==
    \A p \in Procs :
        (Done(p, "ingest") /\ procs[p].status = 200) =>
            Cardinality(BatchStamps(procs[p].loc.id, procs[p].req.nonce)) = 1

\* -------------------------------------------------- offline detector ----
OFFLINE_THRESHOLD_MINUTES == 10

\* a scheduled invocation of function op with its Authorization header
CronReq(op, authorization) == [op |-> op, authorization |-> authorization]

\* the scheduler's header and a caller's without the secret
CronRequests(op) == {CronReq(op, "Bearer CRON_SECRET"), CronReq(op, "")}

\* the request passes cronSecret && authHeader !== `Bearer ${cronSecret}`
CronAuthorized(r) == ~(cronSecret # "" /\ r.authorization # "Bearer " \o cronSecret)

NoRow == [id |-> 0]

\* .single(): the row when the query finds exactly one, else data is null
Single(rows) == IF Cardinality(rows) = 1 THEN CHOOSE a \in rows : TRUE ELSE NoRow

\* servers.select().lt("last_seen", cutoffTime), as a list of row ids
offlineServers(cutoffTime) ==
    SelectSeq([i \in 1..Len(servers) |-> i], LAMBDA i : servers[i].last_seen < cutoffTime)

\* servers.select().gte("last_seen", cutoffTime), as a list of row ids
onlineServers(cutoffTime) ==
    SelectSeq([i \in 1..Len(servers) |-> i], LAMBDA i : servers[i].last_seen >= cutoffTime)

\* a lookup that never finds an open alert
existingAlert_none(serverId) == NoRow

\* alerts.select().eq(server_id).eq(type, "offline").eq(status, "open").single()
existingAlert(serverId) ==
    Single({a \in alerts : a.server_id = serverId /\ a.type = "offline" /\ a.status = "open"})

\* the same query of the clear loop
openAlert(serverId) ==
    Single({a \in alerts : a.server_id = serverId /\ a.type = "offline" /\ a.status = "open"})

\* the row alerts.insert() adds for server i; id stands for gen_random_uuid()
AlertRow(i, now) ==
    [id |-> Cardinality(alerts) + 1, org_id |-> servers[i].org_id, server_id |-> i,
     ts |-> now, type |-> "offline", severity |-> "critical", status |-> "open"]

\* an update that removes the row
AlertsCleared_delete(id) == {a \in alerts : a.id # id}

\* alerts.update({ status: "cleared" }).eq("id", id)
AlertsCleared(id) ==
    {IF a.id = id THEN [a EXCEPT !.status = "cleared"] ELSE a : a \in alerts}

\* the handler with the entries rest of a loop left to deal with: the next entry,
\* the query for the servers back online after the open loop, the response after
\* the clear loop
DetectNext(rec, rest, loop) ==
    LET left == [rec EXCEPT !.loc.todo = rest]
    IN  IF rest # <<>> THEN [left EXCEPT !.pc = loop]
        ELSE IF loop = "detect_check" THEN [left EXCEPT !.pc = "detect_online"]
        ELSE Answer(left, 200, "",
                    [offline_servers |-> rec.loc.offline,
                     alerts_created |-> rec.loc.created,
                     alerts_cleared |-> rec.loc.cleared])

\* cron check, now and cutoffTime, the query for the offline servers
DetectBegin(p, r) ==
    /\ Free(p)
    /\ LET me == Start(p, "detect", r)
           cutoffTime == clock - OFFLINE_THRESHOLD_MINUTES
           found == offlineServers(cutoffTime)
           mine == IF ~CronAuthorized(r) THEN Answer(me, 401, "Unauthorized", [x |-> 0])
                   ELSE [me EXCEPT !.pc = IF found = <<>> THEN "detect_online"
                                          ELSE "detect_check",
                                   !.loc = [now |-> clock, cutoffTime |-> cutoffTime,
                                            todo |-> found, offline |-> Len(found),
                                            created |-> 0, cleared |-> 0, alert |-> 0]]
       IN  procs' = Forget(p, [procs EXCEPT ![p] = mine])
    /\ UNCHANGED <<clock, ticks, rnd, ningest, store, jwts, creds, rtoks, derived>>

\* open loop: look for an open offline alert of the server
DetectCheck(p) ==
    /\ procs[p].pc = "detect_check"
    /\ LET server == Head(procs[p].loc.todo)
       IN  procs' = [procs EXCEPT ![p] =
                        IF existingAlert(server) = NoRow
                        THEN [@ EXCEPT !.pc = "detect_insert"]
                        ELSE DetectNext(@, Tail(@.loc.todo), "detect_check")]
    /\ UNCHANGED <<clock, ticks, rnd, ningest, store, jwts, creds, rtoks, derived>>

\* open loop: insert the alert (the result is not looked at)
DetectInsert(p) ==
    /\ procs[p].pc = "detect_insert"
    /\ Cardinality(alerts) < MaxAlerts
    /\ LET server == Head(procs[p].loc.todo)
       IN  /\ alerts' = alerts \cup {AlertRow(server, procs[p].loc.now)}
           /\ procs' = [procs EXCEPT ![p] =
                           DetectNext([@ EXCEPT !.loc.created = @ + 1],
                                      Tail(@.loc.todo), "detect_check")]
    /\ UNCHANGED <<clock, ticks, rnd, ningest, store, jwts, creds, rtoks,
                   rollup_1m, rollup_1h, cronSecret>>

\* the query for the servers back online
DetectOnline(p) ==
    /\ procs[p].pc = "detect_online"
    /\ LET found == onlineServers(procs[p].loc.cutoffTime)
       IN  procs' = [procs EXCEPT ![p] = DetectNext(@, found, "detect_clear_check")]
    /\ UNCHANGED <<clock, ticks, rnd, ningest, store, jwts, creds, rtoks, derived>>

\* clear loop: look for the open offline alert of the server
DetectClearCheck(p) ==
    /\ procs[p].pc = "detect_clear_check"
    /\ LET server == Head(procs[p].loc.todo)
           found == openAlert(server)
       IN  procs' = [procs EXCEPT ![p] =
                        IF found # NoRow
                        THEN [@ EXCEPT !.pc = "detect_clear", !.loc.alert = found.id]
                        ELSE DetectNext(@, Tail(@.loc.todo), "detect_clear_check")]
    /\ UNCHANGED <<clock, ticks, rnd, ningest, store, jwts, creds, rtoks, derived>>

\* clear loop: set the alert found to cleared
DetectClear(p) ==
    /\ procs[p].pc = "detect_clear"
    /\ alerts' = AlertsCleared(procs[p].loc.alert)
    /\ procs' = [procs EXCEPT ![p] =
                    DetectNext([@ EXCEPT !.loc.cleared = @ + 1],
                               Tail(@.loc.todo), "detect_clear_check")]
    /\ UNCHANGED <<clock, ticks, rnd, ningest, store, jwts, creds, rtoks,
                   rollup_1m, rollup_1h, cronSecret>>

\* the detector steps after DetectBegin
DetectSteps(p) ==
    \/ DetectCheck(p)
    \/ DetectInsert(p)
    \/ DetectOnline(p)
    \/ DetectClearCheck(p)
    \/ DetectClear(p)

\* the fleet an hour after enrollment; the agent of server 1 sent body "B2" under
\* nonce "n0" ten minutes ago, the agent of server 2 has sent nothing
InitWatch ==
    /\ clock = JWT_TTL_MINUTES /\ ticks = 0 /\ ningest = 0 /\ rnd = 3
    /\ servers = <<IngestFacts(ServerRow("o1", 1), Body("B2"),
                               JWT_TTL_MINUTES - OFFLINE_THRESHOLD_MINUTES),
                   ServerRow("o2", 3)>>
    /\ api_nonces = {[org_id |-> "o1", agent_id |-> 1, nonce |-> "n0",
                      ts |-> JWT_TTL_MINUTES - OFFLINE_THRESHOLD_MINUTES,
                      stamp |-> JWT_TTL_MINUTES - OFFLINE_THRESHOLD_MINUTES]}
    /\ heartbeats = SetToBag({HeartbeatRow([orgId |-> "o1", id |-> 1,
                                            now |-> JWT_TTL_MINUTES - OFFLINE_THRESHOLD_MINUTES],
                                           Body("B2"), "n0")})
    /\ subrecords = EmptyBag
    /\ procs = [p \in Procs |-> Idle]
    /\ jwts = {createAgentJWT(1, "o1", 0), createAgentJWT(2, "o1", 0),
               createAgentJWT(3, "o2", 0)}
    /\ creds = {[agent_id |-> 1, org_id |-> "o1", hmac_secret |-> 1],
                [agent_id |-> 2, org_id |-> "o1", hmac_secret |-> 2],
                [agent_id |-> 3, org_id |-> "o2", hmac_secret |-> 3]}
    /\ rtoks = {[agent_id |-> 1, refresh_token |-> 1],
                [agent_id |-> 2, refresh_token |-> 2],
                [agent_id |-> 3, refresh_token |-> 3]}
    /\ alerts = {} /\ rollup_1m = {} /\ rollup_1h = {}
    /\ cronSecret = "CRON_SECRET"

\* a heartbeat of the agent of server 2, stamped now
WatchRequests ==
    { IngestReq(j, clock, "n1", Sign(SecretOf(j.sub), clock, "n1", "B2"), "B2") :
        j \in {createAgentJWT(3, "o2", 0)} }

\* detector runs and heartbeats one after the other, the clock advancing
NextWatchSeq ==
    \/ \E r \in CronRequests("detect") : DetectBegin("p1", r)
    \/ DetectSteps("p1")
    \/ \E r \in WatchRequests : IngestBegin("p1", r)
    \/ IngestSteps("p1")
    \/ Tick

SpecWatchSeq == InitWatch /\ [][NextWatchSeq]_vars

\* detector runs and heartbeats on two instances interleaved, the clock advancing
NextWatch ==
    \/ \E p \in Procs, r \in CronRequests("detect") : DetectBegin(p, r)
    \/ \E p \in Procs : DetectSteps(p)
    \/ \E p \in Procs, r \in WatchRequests : IngestBegin(p, r)
    \/ \E p \in Procs : IngestSteps(p)
    \/ Tick

SpecWatch == InitWatch /\ [][NextWatch]_vars

\* ----------------------------------------------------- alerts claims ----
\* number of open offline alerts of server i
OpenCount(i) ==
    Cardinality({a \in alerts : a.server_id = i /\ a.type = "offline" /\ a.status = "open"})

\* no other instance has taken a request since p took its own
RanAlone(p) == \A q \in Procs \ {p} : q \in procs[p].prior \/ procs[q].op = "idle"

\* C22: with detector runs (and heartbeats) one after the other, no server ever has
\* more than one open offline alert, and a run creates an alert only for a server
\* that has no open offline alert: a run that follows another creates none for
\* the servers the other has dealt with
C22_DetectorIdempotent ==
    [][/\ \A i \in RowIds :
            Cardinality({a \in alerts' : a.server_id = i /\ a.type = "offline"
                                         /\ a.status = "open"}) <= 1
       /\ \A b \in alerts' : (\A a \in alerts : a.id # b.id) => OpenCount(b.server_id) = 0
      ]_vars

\* a run that found an offline server with its alert open created nothing
C22_Witness ==
    /\ Done("p1", "detect") /\ procs["p1"].status = 200
    /\ procs["p1"].loc.offline >= 1 /\ procs["p1"].loc.created = 0
    /\ \E i \in RowIds : OpenCount(i) = 1

\* no heartbeat of server i was received in the threshold before now
Silent(i, now) ==
    \A h \in BagToSet(heartbeats) :
        h.server_id = i => h.at <= now - OFFLINE_THRESHOLD_MINUTES

\* C23: after a detector run, every server from which no heartbeat was received
\* for 10 minutes or more before the run has exactly one open offline alert, of
\* severity critical
C23_OfflineDetected ==
    (Done("p1", "detect") /\ procs["p1"].status = 200) =>
        \A i \in RowIds : Silent(i, procs["p1"].loc.now) =>
            /\ OpenCount(i) = 1
            /\ \A a \in alerts : (a.server_id = i /\ a.status = "open") =>
                                     a.severity = "critical"

\* C24: no server ever has more than one open offline alert, detector runs
\* overlapping or not
C24_OneOpenAlert == \A i \in RowIds : OpenCount(i) <= 1

\* C25: after a detector run during which no other instance did anything, each
\* server offline at the run's cutoff has exactly one open offline alert and each
\* server online at it has none, whatever runs overlapped before
C25_Converges ==
    \A p \in Procs :
        (Done(p, "detect") /\ procs[p].status = 200 /\ RanAlone(p)) =>
            \A i \in RowIds :
                OpenCount(i) = IF servers[i].last_seen < procs[p].loc.cutoffTime
                               THEN 1 ELSE 0

\* C26: after a detector run that started after a heartbeat of a server had been
\* answered 200, the server has no open offline alert
C26_ClearedAfterIngest ==
    \A p \in Procs : \A q \in Procs :
        (/\ Done(p, "detect") /\ procs[p].status = 200
         /\ q \in procs[p].prior
         /\ procs[q].op = "ingest" /\ procs[q].status = 200) =>
            OpenCount(procs[q].loc.id) = 0

\* C27: every step keeps every alert row, unchanged or moved from open to cleared
C27_AlertLifecycle ==
    [][\A a \in alerts : \E b \in alerts' :
          /\ b.id = a.id
          /\ \/ b = a
             \/ a.status = "open" /\ b = [a EXCEPT !.status = "cleared"]
      ]_vars

\* an alert was cleared
C27_Witness == \E a \in alerts : a.status = "cleared"

\* ----------------------------------------------------- rollup builder ----
\* an instant in half minutes: minute m, first or second half h
Instant(m, h) == 2 * m + h

\* Math.floor(t / width) * width, t and width in half minutes
FloorTo(t, width) == (t \div width) * width

\* FROM heartbeats WHERE ts >= $1 AND ts < $2
Window(from, to) ==
    {h \in BagToSet(heartbeats) : /\ Instant(h.ts, h.half) >= from
                                  /\ Instant(h.ts, h.half) < to}

\* the heartbeats of the window in a group: server and date_trunc('minute', ts)
Group(from, to, serverId, bucket) ==
    LET hit == {h \in Window(from, to) : h.server_id = serverId /\ h.ts = bucket}
    IN  [h \in hit |-> heartbeats[h]]

\* COUNT(*)
Count(rows) == BagCardinality(rows)

\* SUM(cpu_pct)
RECURSIVE Sum(_)
Sum(rows) ==
    IF rows = EmptyBag THEN 0
    ELSE LET h == CHOOSE h \in BagToSet(rows) : TRUE
         IN  h.cpu_pct + Sum(rows (-) SetToBag({h}))

\* ORDER BY cpu_pct
RECURSIVE Ordered(_)
Ordered(rows) ==
    IF rows = EmptyBag THEN <<>>
    ELSE LET h == CHOOSE h \in BagToSet(rows) :
                      \A g \in BagToSet(rows) : h.cpu_pct <= g.cpu_pct
         IN  <<h.cpu_pct>> \o Ordered(rows (-) SetToBag({h}))

\* PERCENTILE_CONT(0.95) WITHIN GROUP (ORDER BY cpu_pct), in hundredths: linear
\* interpolation at position 0.95 * (n - 1) of the ordered values
PercentileCont95(rows) ==
    LET s == Ordered(rows)
        pos == 95 * (Len(s) - 1)
        lo == pos \div 100 + 1
        frac == pos % 100
    IN  IF frac = 0 THEN 100 * s[lo]
        ELSE 100 * s[lo] + frac * (s[lo + 1] - s[lo])

\* AVG(cpu_pct) as the fraction sum / count (the load, memory and swap columns
\* are averaged the same way)
Avg(rows) == [num |-> Sum(rows), den |-> Count(rows)]

\* the rows the SELECT of rollup1mQuery returns for the window [$1, $2)
rollup1mQuery(from, to) ==
    { [bucket |-> h.ts, org_id |-> h.org_id, server_id |-> h.server_id,
       cpu_avg |-> Avg(Group(from, to, h.server_id, h.ts)),
       cpu_p95 |-> PercentileCont95(Group(from, to, h.server_id, h.ts)),
       sample_count |-> Count(Group(from, to, h.server_id, h.ts))] :
        h \in Window(from, to) }

\* INSERT ... ON CONFLICT (server_id, bucket) DO UPDATE SET <aggregates> = EXCLUDED
Upsert(table, rows) ==
    LET same(x, r) == r.server_id = x.server_id /\ r.bucket = x.bucket
        excluded(x) == CHOOSE r \in rows : same(x, r)
    IN  {IF \E r \in rows : same(x, r)
         THEN [x EXCEPT !.cpu_avg = excluded(x).cpu_avg, !.cpu_p95 = excluded(x).cpu_p95,
                        !.sample_count = excluded(x).sample_count]
         ELSE x : x \in table}
        \cup {r \in rows : ~\E x \in table : same(x, r)}

\* cron check, now (at either half of the current minute), bucket1m
RollupBegin(p, r) ==
    /\ Free(p)
    /\ \E half \in {0, 1} :
        LET me == Start(p, "rollup", r)
            now == Instant(clock, half)
            twoMinutesAgo == now - Instant(2, 0)
            bucket1m == FloorTo(twoMinutesAgo, Instant(1, 0))
            mine == IF ~CronAuthorized(r) THEN Answer(me, 401, "Unauthorized", [x |-> 0])
                    ELSE [me EXCEPT !.pc = "rollup_exec",
                                    !.loc = [now |-> now, bucket1m |-> bucket1m]]
        IN  procs' = Forget(p, [procs EXCEPT ![p] = mine])
    /\ UNCHANGED <<clock, ticks, rnd, ningest, store, jwts, creds, rtoks, derived>>

\* client.rpc("exec_sql", rollup1mQuery): the function is defined nowhere and the
\* table of the schema lacks columns the statement names, so the statement runs
\* or fails with the deployment; the error is not looked at. Then bucket1h and
\* rollup1hQuery are built, nothing is sent, and the response names both buckets.
\* rows and raw record what the statement wrote and the heartbeats it read
RollupExec(p) ==
    /\ procs[p].pc = "rollup_exec"
    /\ \E executed \in BOOLEAN :
        LET l == procs[p].loc
            rows == IF executed THEN rollup1mQuery(l.bucket1m, l.now) ELSE {}
            oneHourAgo == l.now - Instant(60, 0)
            bucket1h == FloorTo(oneHourAgo, Instant(60, 0))
            rec == [procs[p] EXCEPT !.loc = [now |-> l.now, bucket1m |-> l.bucket1m,
                                             bucket1h |-> bucket1h, executed |-> executed,
                                             rows |-> rows, raw |-> heartbeats]]
        IN  /\ rollup_1m' = Upsert(rollup_1m, rows)
            /\ procs' = [procs EXCEPT ![p] =
                            Answer(rec, 200, "Rollups computed (1m and 1h buckets)",
                                   [bucket_1m |-> l.bucket1m, bucket_1h |-> bucket1h])]
    /\ UNCHANGED <<clock, ticks, rnd, ningest, store, jwts, creds, rtoks, alerts, rollup_1h,
                   cronSecret>>

\* minutes between two scheduled invocations of the rollup builder
CRON_MINUTES == 5

\* the fleet 55 minutes after enrollment, nothing ingested yet
InitRollup ==
    /\ Fleet /\ clock = JWT_TTL_MINUTES - CRON_MINUTES /\ ticks = 0 /\ ningest = 0
    /\ procs = [p \in Procs |-> Idle]
    /\ alerts = {} /\ rollup_1m = {} /\ rollup_1h = {}
    /\ cronSecret = "CRON_SECRET"

\* heartbeats of the agent of server 1 captured in the first and in the second
\* half of minute 55 and in minute 56, each under its own nonce, sent now
RollRequests ==
    { IngestReq(createAgentJWT(1, "o1", 0), clock, x[2], Sign(1, clock, x[2], x[1]), x[1]) :
        x \in {<<"H55a", "n1">>, <<"H55b", "n2">>, <<"H56", "n3">>} }

\* rollup runs at any time and heartbeats, two instances interleaved
NextRollup ==
    \/ \E p \in Procs, r \in CronRequests("rollup") : RollupBegin(p, r)
    \/ \E p \in Procs : RollupExec(p)
    \/ \E p \in Procs, r \in RollRequests : IngestBegin(p, r)
    \/ \E p \in Procs : IngestSteps(p)
    \/ Tick

SpecRollup == InitRollup /\ [][NextRollup]_vars

\* a minute passes while the scheduler is followed
Wait ==
    /\ ticks < MaxWait
    /\ clock' = clock + 1
    /\ ticks' = ticks + 1
    /\ UNCHANGED <<rnd, ningest, store, procs, jwts, creds, rtoks, derived>>

\* the schedule */5 * * * * is due and has not fired in this minute
CronDue ==
    /\ clock % CRON_MINUTES = 0
    /\ ~(procs["p1"].op = "rollup" /\ procs["p1"].t0 = clock)

\* the rollup builder invoked by the scheduler every 5 minutes on one instance,
\* heartbeats on the other
NextRollupCron ==
    \/ CronDue /\ RollupBegin("p1", CronReq("rollup", "Bearer CRON_SECRET"))
    \/ RollupExec("p1")
    \/ \E r \in RollRequests : IngestBegin("p2", r)
    \/ IngestSteps("p2")
    \/ ~CronDue /\ Free("p1") /\ Wait

SpecRollupCron == InitRollup /\ [][NextRollupCron]_vars

\* ----------------------------------------------------- rollup claims ----
\* a rollup run answered 200
Rolled(p) == Done(p, "rollup") /\ procs[p].status = 200

\* C28: when the statement of two rollup runs was executed over the same
\* heartbeats, which are the heartbeats now, the two computed the same row for
\* every (server, bucket) both computed, and heartbeats_rollup_1m holds that row
\* and no other for the key
C28_RollupIdempotent ==
    \A p \in Procs : \A q \in Procs \ {p} :
        (/\ Rolled(p) /\ Rolled(q)
         /\ procs[p].loc.executed /\ procs[q].loc.executed
         /\ procs[p].loc.raw = heartbeats /\ procs[q].loc.raw = heartbeats) =>
            \A r1 \in procs[p].loc.rows : \A r2 \in procs[q].loc.rows :
                (r1.server_id = r2.server_id /\ r1.bucket = r2.bucket) =>
                    /\ r1 = r2
                    /\ {x \in rollup_1m : x.server_id = r1.server_id
                                          /\ x.bucket = r1.bucket} = {r1}

\* C29: after a rollup run answered 200, every heartbeat in the window of the
\* 1-minute rollup has a row in heartbeats_rollup_1m and every heartbeat in the
\* window of the 1-hour rollup has a row in heartbeats_rollup_1h
C29_BothGranularities ==
    \A p \in Procs : Rolled(p) =>
        \A h \in BagToSet(procs[p].loc.raw) :
            LET at == Instant(h.ts, h.half)
                l == procs[p].loc
            IN  /\ (at >= l.bucket1m /\ at < l.now) =>
                      \E x \in rollup_1m : x.server_id = h.server_id /\ x.bucket = h.ts
                /\ (at >= l.bucket1h /\ at < l.now) =>
                      \E x \in rollup_1h :
                          /\ x.server_id = h.server_id
                          /\ Instant(x.bucket, 0) = FloorTo(at, Instant(60, 0))

\* number of heartbeats of server i stamped in minute b
RawCount(i, b) ==
    Count([h \in {g \in BagToSet(heartbeats) : g.server_id = i /\ g.ts = b} |->
              heartbeats[h]])

\* C30: after a scheduled rollup run whose statement was executed, with a
\* scheduled run 5 minutes before it and no heartbeat stored since, every minute
\* since that previous run that holds a heartbeat of a server has a row in
\* heartbeats_rollup_1m whose sample_count is the number of these heartbeats
C30_RollupCoverage ==
    (/\ Rolled("p1") /\ procs["p1"].loc.executed
     /\ procs["p1"].loc.raw = heartbeats
     /\ procs["p1"].t0 >= JWT_TTL_MINUTES) =>
        \A i \in RowIds : \A b \in (procs["p1"].t0 - CRON_MINUTES)..(procs["p1"].t0 - 1) :
            RawCount(i, b) > 0 =>
                \E x \in rollup_1m : /\ x.server_id = i /\ x.bucket = b
                                     /\ x.sample_count = RawCount(i, b)

\* ------------------------------------------------------ nonce cleanup ----
\* the age the handler passes: cleanupOldNonces(client, 10)
NONCE_MAX_AGE_MINUTES == 10

\* api_nonces after delete().lt("ts", cutoff), cutoff = now - minutesOld
cleanupOldNonces(now, minutesOld) == {n \in api_nonces : ~(n.ts < now - minutesOld)}

\* the nonce-cleanup handler: cron check, the delete, the count in the response
CleanupRun(p, r) ==
    /\ Free(p)
    /\ LET me == Start(p, "cleanup", r)
           kept == cleanupOldNonces(clock, NONCE_MAX_AGE_MINUTES)
       IN  IF ~CronAuthorized(r)
             THEN /\ procs' = Forget(p, [procs EXCEPT ![p] =
                                  Answer(me, 401, "Unauthorized", [x |-> 0])])
                  /\ UNCHANGED api_nonces
             ELSE /\ api_nonces' = kept
                  /\ procs' = Forget(p, [procs EXCEPT ![p] =
                                  Answer(me, 200, "",
                                         [nonces_deleted |-> Cardinality(api_nonces \ kept)])])
    /\ UNCHANGED <<clock, ticks, rnd, ningest, servers, heartbeats, subrecords,
                   jwts, creds, rtoks, derived>>

\* the fleet an hour after enrollment; the agent of server 1, its clock 5 minutes
\* ahead, sent body "B2" under nonce "n0" ten minutes ago
Aged ==
    /\ clock = JWT_TTL_MINUTES /\ ticks = 0 /\ ningest = 0 /\ rnd = 3
    /\ servers = <<IngestFacts(ServerRow("o1", 1), Body("B2"),
                               JWT_TTL_MINUTES - NONCE_MAX_AGE_MINUTES),
                   ServerRow("o2", 3)>>
    /\ api_nonces = {[org_id |-> "o1", agent_id |-> 1, nonce |-> "n0",
                      ts |-> JWT_TTL_MINUTES - NONCE_MAX_AGE_MINUTES,
                      stamp |-> JWT_TTL_MINUTES - SKEW_MINUTES]}
    /\ heartbeats = SetToBag({HeartbeatRow([orgId |-> "o1", id |-> 1,
                                            now |-> JWT_TTL_MINUTES - NONCE_MAX_AGE_MINUTES],
                                           Body("B2"), "n0")})
    /\ subrecords = EmptyBag
    /\ procs = [p \in Procs |-> Idle]
    /\ jwts = {createAgentJWT(1, "o1", 0), createAgentJWT(2, "o1", 0),
               createAgentJWT(3, "o2", 0)}
    /\ creds = {[agent_id |-> 1, org_id |-> "o1", hmac_secret |-> 1],
                [agent_id |-> 2, org_id |-> "o1", hmac_secret |-> 2],
                [agent_id |-> 3, org_id |-> "o2", hmac_secret |-> 3]}
    /\ rtoks = {[agent_id |-> 1, refresh_token |-> 1],
                [agent_id |-> 2, refresh_token |-> 2],
                [agent_id |-> 3, refresh_token |-> 3]}
    /\ alerts = {} /\ rollup_1m = {} /\ rollup_1h = {}

\* that state in a deployment with CRON_SECRET set
InitJanitor == Aged /\ cronSecret = "CRON_SECRET"

\* the request accepted ten minutes ago sent again unchanged, and a new request
\* of the same agent stamped now
JanitorRequests ==
    { IngestReq(createAgentJWT(1, "o1", 0), JWT_TTL_MINUTES - SKEW_MINUTES, "n0",
                Sign(1, JWT_TTL_MINUTES - SKEW_MINUTES, "n0", "B2"), "B2"),
      IngestReq(createAgentJWT(1, "o1", 0), clock, "n1", Sign(1, clock, "n1", "B2"), "B2") }

\* ingests and cleanup runs on two instances interleaved, the clock advancing
NextJanitor ==
    \/ \E p \in Procs, r \in JanitorRequests : IngestBegin(p, r)
    \/ \E p \in Procs : IngestSteps(p)
    \/ \E p \in Procs, r \in CronRequests("cleanup") : CleanupRun(p, r)
    \/ Tick

SpecJanitor == InitJanitor /\ [][NextJanitor]_vars

\* ----------------------------------------------------- cleanup claims ----
\* every nonce row a step deletes was stored by a request whose timestamp is more
\* than 5 minutes from now
PurgedAreStale ==
    \A n \in api_nonces \ api_nonces' : Abs(clock - n.stamp) > SKEW_MINUTES

\* C31: a step deletes only nonce rows of requests whose timestamp is more than 5
\* minutes from now, and no (server, nonce) ever has the heartbeat of more than
\* one accepted request, cleanup runs interleaved with ingests or not
C31_JanitorSafe ==
    [][/\ PurgedAreStale
       /\ \A i \in RowIds, n \in {"n0", "n1"} : RowsFor(heartbeats', i, n) <= 1
      ]_vars

\* --------------------------------------------------- job authorization ----
\* invocations with the scheduler's header, without a header, with a wrong secret
JobRequests(op) == CronRequests(op) \cup {CronReq(op, "Bearer guess")}

\* the same state in a deployment with or without CRON_SECRET
InitJobs == Aged /\ cronSecret \in {"", "CRON_SECRET"}

\* the three scheduled jobs on two instances interleaved, the clock advancing
NextJobs ==
    \/ \E p \in Procs, r \in JobRequests("detect") : DetectBegin(p, r)
    \/ \E p \in Procs : DetectSteps(p)
    \/ \E p \in Procs, r \in JobRequests("rollup") : RollupBegin(p, r)
    \/ \E p \in Procs : RollupExec(p)
    \/ \E p \in Procs, r \in JobRequests("cleanup") : CleanupRun(p, r)
    \/ Tick

SpecJobs == InitJobs /\ [][NextJobs]_vars

\* instance p takes up a request to a job endpoint in this step
JobTaken(p) ==
    /\ procs[p].pc = "done" /\ procs'[p].op \in {"detect", "rollup", "cleanup"}
    /\ procs'[p] # [procs[p] EXCEPT !.prior = procs'[p].prior]

\* C32: a request to a job endpoint without the Authorization header of the
\* scheduler is answered 401 in the step that takes it up, and the step changes
\* no table, whether CRON_SECRET is set or not
C32_JobsNeedSecret ==
    [][\A p \in Procs :
          (JobTaken(p) /\ procs'[p].req.authorization # "Bearer CRON_SECRET") =>
              /\ procs'[p].pc = "done" /\ procs'[p].status = 401
              /\ store' = store /\ derived' = derived]_vars

\* C33: a rollup run whose statement the store did not execute does not answer
\* 200: a job answers success only for writes that took effect
C33_FailureReported ==
    \A p \in Procs :
        (Done(p, "rollup") /\ procs[p].status # 401 /\ ~procs[p].loc.executed) =>
            procs[p].status # 200

\* C34: an ingest request that got past the lookup of its nonce and whose insert
\* into api_nonces then meets the row a racing request with the same (org,
\* agent, nonce) has stored in between, is answered 409
C34_RaceLoserIsReplay ==
    [][\A p \in Procs :
          (/\ procs[p].op = "ingest" /\ procs[p].pc = "ingest_store"
           /\ ~BadSignature(procs[p].req) /\ NonceStored(procs[p].req)
           /\ procs'[p].pc = "done") =>
              procs'[p].status = 409]_vars

\* ------------------------------------------------- committed batches ----
\* batches of agent 1 with fresh nonces: an ordinary one, one reporting 2^31
\* cores, one reporting an uptime of 2^63 seconds
CommitRequests ==
    { IngestReq(createAgentJWT(1, "o1", 0), clock, n, Sign(1, clock, n, b), b) :
        n \in {"n1", "n2", "n3"}, b \in {"B2", "Bcores", "Bup"} }

\* one ingest instance, one request after the other, the clock advancing
NextCommit ==
    \/ \E r \in CommitRequests : IngestBegin("p1", r)
    \/ IngestSteps("p1")
    \/ Tick

SpecCommit == InitFleet /\ [][NextCommit]_vars

\* C35: an ingest request answered 200 has its heartbeat row in heartbeats, and
\* the last_seen of its host's row is the received_at of the answer
C35_OkMeansCommitted ==
    \A p \in Procs : (Done(p, "ingest") /\ procs[p].status = 200) =>
        /\ RowsFor(heartbeats, procs[p].loc.id, procs[p].req.nonce) >= 1
        /\ servers[procs[p].loc.id].last_seen = procs[p].resp.received_at

\* ------------------------------------------------ rotate, store errors ----
\* the rotate handler when the update of the servers row comes back with an error
\* (the statement did not run): the result is not looked at, the minted token and
\* the generated refresh token are returned with 200
RotateUpdateFails(p) ==
    /\ procs[p].pc = "rotate_update"
    /\ rnd < MaxRnd
    /\ LET r == procs[p].req
           newJwt == createAgentJWT(r.agent_id, procs[p].loc.org, clock)
           newRefreshToken == rnd + 1
           resp == [agent_jwt |-> newJwt, refresh_token |-> newRefreshToken]
       IN  /\ procs' = [procs EXCEPT ![p] = Answer(@, 200, "", resp)]
           /\ jwts' = jwts \cup {newJwt}
           /\ rtoks' = rtoks \cup {[agent_id |-> r.agent_id,
                                    refresh_token |-> newRefreshToken]}
    /\ rnd' = rnd + 1
    /\ UNCHANGED derived
    /\ UNCHANGED <<clock, ticks, ningest, servers, api_nonces, heartbeats, subrecords, creds>>

\* rotate on two instances against a store whose update may fail, the clock advancing
NextOutage ==
    \/ \E p \in Procs, r \in RotateRequests : RotateBegin(p, r)
    \/ \E p \in Procs : RotateUpdate(p)
    \/ \E p \in Procs : RotateUpdateFails(p)
    \/ Tick

SpecOutage == InitTok /\ [][NextOutage]_vars

\* C36: in the step that answers a rotate with 200, the stored refresh token of
\* the agent is the returned one and is not the presented one
C36_RotateTookEffect ==
    [][\A p \in Procs :
          (/\ procs[p].pc = "rotate_update"
           /\ procs'[p].pc = "done" /\ procs'[p].status = 200) =>
              \E i \in 1..Len(servers') :
                  /\ servers'[i].agent_id = procs[p].req.agent_id
                  /\ servers'[i].refresh_token = procs'[p].resp.refresh_token
                  /\ servers'[i].refresh_token # procs[p].req.refresh_token]_vars

\* ------------------------------------------------------- host scoping ----
\* two tenants with one host each (F1 in both), enrolled at time 0, an hour later:
\* the agent of server 1 sent body "B2" under nonce "n1" ten minutes ago, the agent
\* of server 2 has sent nothing and the offline detector has just opened its alert
InitScope ==
    /\ clock = JWT_TTL_MINUTES /\ ticks = 0 /\ ningest = 0 /\ rnd = 2
    /\ servers = <<IngestFacts(ServerRow("o1", 1), Body("B2"),
                               JWT_TTL_MINUTES - OFFLINE_THRESHOLD_MINUTES),
                   ServerRow("o2", 2)>>
    /\ api_nonces = {[org_id |-> "o1", agent_id |-> 1, nonce |-> "n1",
                      ts |-> JWT_TTL_MINUTES - OFFLINE_THRESHOLD_MINUTES,
                      stamp |-> JWT_TTL_MINUTES - OFFLINE_THRESHOLD_MINUTES]}
    /\ heartbeats = SetToBag({HeartbeatRow([orgId |-> "o1", id |-> 1,
                                            now |-> JWT_TTL_MINUTES - OFFLINE_THRESHOLD_MINUTES],
                                           Body("B2"), "n1")})
    /\ subrecords = EmptyBag
    /\ procs = [p \in Procs |-> Idle]
    /\ jwts = {createAgentJWT(1, "o1", 0), createAgentJWT(2, "o2", 0)}
    /\ creds = {[agent_id |-> 1, org_id |-> "o1", hmac_secret |-> 1],
                [agent_id |-> 2, org_id |-> "o2", hmac_secret |-> 2]}
    /\ rtoks = {[agent_id |-> 1, refresh_token |-> 1],
                [agent_id |-> 2, refresh_token |-> 2]}
    /\ alerts = {[id |-> 1, org_id |-> "o2", server_id |-> 2, ts |-> JWT_TTL_MINUTES,
                  type |-> "offline", severity |-> "critical", status |-> "open"]}
    /\ rollup_1m = {} /\ rollup_1h = {}
    /\ cronSecret = "CRON_SECRET"

\* a heartbeat of either host stamped now, both under the nonce value "n1"
ScopeRequests ==
    { IngestReq(j, clock, "n1", Sign(SecretOf(j.sub), clock, "n1", "B2"), "B2") :
        j \in {createAgentJWT(1, "o1", 0), createAgentJWT(2, "o2", 0)} }

\* re-enrollment of the host of tenant o2 and enrollment of a new host of tenant o1
ScopeEnrolls == { EnrollReq("S2", "F1", "hb"), EnrollReq("S1", "F2", "ha") }

\* enroll, rotate and ingest of the hosts on two instances interleaved
NextScope ==
    \/ \E p \in Procs, r \in ScopeEnrolls : EnrollBegin(p, r)
    \/ \E p \in Procs : EnrollUpdate(p)
    \/ \E p \in Procs : EnrollInsert(p)
    \/ \E p \in Procs, r \in RotateRequests : RotateBegin(p, r)
    \/ \E p \in Procs : RotateUpdate(p)
    \/ \E p \in Procs, r \in ScopeRequests : IngestBegin(p, r)
    \/ \E p \in Procs : IngestSteps(p)

SpecScope == InitScope /\ [][NextScope]_vars

\* the servers rows of the host a request is for: by the agent_id of the token
\* or of the body, or by the tenant of the secret and the fingerprint
HostRows(req) ==
    IF req.op = "ingest" THEN {i \in RowIds : servers[i].agent_id = req.auth.sub}
    ELSE IF req.op = "rotate" THEN {i \in RowIds : servers[i].agent_id = req.agent_id}
    ELSE {i \in RowIds :
            /\ servers[i].org_id = getOrgBySecretHash(hashSecret(req.org_enroll_secret))
            /\ servers[i].machine_id = req.machine_id}

\* instance p takes a step of its handler
Acting(p) == procs'[p] # [procs[p] EXCEPT !.prior = procs'[p].prior]

\* C37: an ingest request is answered 409 by the replay read only when a row with
\* its own org, agent and nonce is stored; and a step of an enroll, rotate or
\* ingest handler leaves every servers row of another host as it is, adds or
\* removes no api_nonces row of another host, and leaves the alerts as they are
C37_HostScoped ==
    [][\A p \in Procs : Acting(p) =>
          LET req == procs'[p].req
              mine == HostRows(req)
          IN  /\ (/\ procs[p].pc = "ingest_nonce"
                  /\ procs'[p].pc = "done" /\ procs'[p].status = 409) =>
                     NonceStored(req)
              /\ Len(servers') >= Len(servers)
              /\ \A i \in RowIds \ mine : servers'[i] = servers[i]
              /\ \A n \in (api_nonces' \ api_nonces) \cup (api_nonces \ api_nonces') :
                    \E i \in mine : /\ n.agent_id = servers[i].agent_id
                                    /\ n.org_id = servers[i].org_id
              /\ alerts' = alerts]_vars

\* the agent of server 2 was answered 200 under nonce "n1" while the row of the
\* agent of server 1 for "n1" is stored, the agent of server 1 was answered 409
\* under "n1", and the alert of server 2 is open
C37_Witness ==
    \E p, q \in Procs :
        /\ Done(p, "ingest") /\ procs[p].status = 200
        /\ procs[p].req.auth.sub = 2 /\ procs[p].req.nonce = "n1"
        /\ Done(q, "ingest") /\ procs[q].status = 409
        /\ procs[q].req.auth.sub = 1 /\ procs[q].req.nonce = "n1"
        /\ \E n \in api_nonces : n.agent_id = 1 /\ n.nonce = "n1"
        /\ \E a \in alerts : a.server_id = 2 /\ a.status = "open"

====
